---- MODULE Spec2Model ----
(***************************************************************************)
(* State-machine model of the staged order allocator:                      *)
(*   DeliveryAllocator.__init__ / allocate      (src/src/allocator.py)     *)
(*   DataPreprocessor.preprocess                (src/src/preprocessor.py)  *)
(*   AIAllocator.allocate_orders and its stages (src/src/ai_allocator.py)  *)
(*   AllocationValidator, validate_order_feasibility (src/src/validator.py)*)
(*   the helpers of src/utils.py                                           *)
(* Times are minutes since midnight.  The LLM is an arbitrary proposer:    *)
(* each element of its response is chosen nondeterministically when the    *)
(* parsing loop reaches it.                                                *)
(***************************************************************************)
EXTENDS Integers, Sequences, FiniteSets, TLC

VARIABLES
    orders,               \* order_id -> order dict (self.orders)
    drivers,              \* driver_id -> driver dict (self.drivers)
    pc,                   \* position in DeliveryAllocator.__init__/allocate
    stage,                \* stage of allocate_orders being executed, 1..6 (7: past the last)
    categorized_orders,   \* category -> list of order ids
    categorized_drivers,  \* category -> list of driver ids
    preprocessed_data,    \* stats and constraints of DataPreprocessor.preprocess
    driver_assignments,   \* driver_id -> list of order ids (shared running lists)
    allocations,          \* accumulated per-stage partial allocations
    allocated_order_ids,  \* accumulated set of allocated order ids
    driver_map,           \* drivers_with_capacity of the running stage (list of ids)
    stage_allocations,    \* `allocations` local to _parse_ai_allocations
    stage_allocated_ids,  \* `allocated_order_ids` local to _parse_ai_allocations
    parsed,               \* number of response entries the parsing loop has consumed
    stage_entry,          \* driver_assignments as it stood when the stage started
    llm_calls,            \* stage -> number of llm.generate calls
    ai_results,           \* value returned by allocate_orders
    unallocation_reason,  \* order_id -> reason written on the order dict ("" : key absent)
    validation_errors,    \* AllocationValidator.validation_errors
    validation_warnings,  \* AllocationValidator.validation_warnings
    allocation_result,    \* value returned by DeliveryAllocator.allocate
    call_args,            \* arguments of a direct call of a pure function
    call_ret              \* its return value

vars == <<orders, drivers, pc, stage, categorized_orders, categorized_drivers,
          preprocessed_data,
          driver_assignments, allocations, allocated_order_ids, driver_map,
          stage_allocations, stage_allocated_ids, parsed, stage_entry, llm_calls,
          ai_results, unallocation_reason, validation_errors, validation_warnings,
          allocation_result, call_args, call_ret>>

runVars == <<pc, stage, categorized_orders, categorized_drivers, preprocessed_data,
             driver_assignments, allocations, allocated_order_ids, driver_map,
             stage_allocations, stage_allocated_ids, parsed, stage_entry, llm_calls,
             ai_results, unallocation_reason, validation_errors, validation_warnings,
             allocation_result>>

-----------------------------------------------------------------------------
(* Bounds of the model *)

\* largest max_orders_per_day of an input driver
MaxCap == 2
\* largest number of entries of one proposer response
MaxProposals == 2
\* largest number of order ids in one proposal
MaxIds == 2
\* largest number of already-assigned orders in a direct feasibility call
MaxAssigned == 2

(* Program constants *)

min_buffer_time_minutes == 15

OrderList == <<"O1", "O2", "O3">>
DriverList == <<"D1", "D2">>

Range(s) == {s[i] : i \in 1..Len(s)}

OrderIds == Range(OrderList)
DriverIds == Range(DriverList)

RequiredOrderFields == {"order_id", "pickup_time", "setup_time", "teardown_time", "region"}
RequiredDriverFields == {"driver_id", "name", "preferred_region", "max_orders_per_day"}

NoValue == "-"

\* the value of a variable that has not been assigned yet
Nothing == [unset |-> TRUE]

-----------------------------------------------------------------------------
(* src/utils.py *)

\* validate_data without its loop over the drivers
validate_data_raises_OrdersOnly(os, ds) ==
    \E i \in 1..Len(OrderList) : ~(RequiredOrderFields \subseteq os[OrderList[i]].keys)

\* validate_data raises ValueError iff some required key is absent
validate_data_raises(os, ds) ==
    \/ \E i \in 1..Len(OrderList) : ~(RequiredOrderFields \subseteq os[OrderList[i]].keys)
    \/ \E i \in 1..Len(DriverList) : ~(RequiredDriverFields \subseteq ds[DriverList[i]].keys)

\* check_time_conflict with strict comparisons: windows that touch conflict
check_time_conflict_Strict(order1, order2) ==
    ~(order1.teardown_time < order2.pickup_time \/ order2.teardown_time < order1.pickup_time)

check_time_conflict(order1, order2) ==
    ~(order1.teardown_time <= order2.pickup_time \/ order2.teardown_time <= order1.pickup_time)

\* has_required_capabilities with the vip requirement treated as a preference
has_required_capabilities_VipPreferred(driver, order) ==
    LET order_tags == order.tags
        driver_capabilities == driver.capabilities
    IN  IF "wedding" \in order_tags /\ "wedding" \notin driver_capabilities
        THEN FALSE
        ELSE IF "corporate" \in order_tags /\ "corporate" \notin driver_capabilities
        THEN FALSE
        ELSE TRUE

has_required_capabilities(driver, order) ==
    LET order_tags == order.tags
        driver_capabilities == driver.capabilities
    IN  IF /\ ("wedding" \in order_tags \/ "vip" \in order_tags)
           /\ \/ ("wedding" \in order_tags /\ "wedding" \notin driver_capabilities)
              \/ ("vip" \in order_tags /\ "vip" \notin driver_capabilities)
        THEN FALSE
        ELSE IF "corporate" \in order_tags /\ "corporate" \notin driver_capabilities
        THEN FALSE
        ELSE TRUE

\* get_order_priority scoring early_setup without asking for corporate
get_order_priority_EarlySetupAlone(order) ==
    LET tags == order.tags
    IN  IF "vip" \in tags /\ "wedding" \in tags THEN 100
        ELSE IF "vip" \in tags THEN 90
        ELSE IF "wedding" \in tags THEN 80
        ELSE IF "early_setup" \in tags THEN 60
        ELSE IF "corporate" \in tags THEN 50
        ELSE 30

get_order_priority(order) ==
    LET tags == order.tags
    IN  IF "vip" \in tags /\ "wedding" \in tags THEN 100
        ELSE IF "vip" \in tags THEN 90
        ELSE IF "wedding" \in tags THEN 80
        ELSE IF "corporate" \in tags /\ "early_setup" \in tags THEN 60
        ELSE IF "corporate" \in tags THEN 50
        ELSE 30

\* the category categorize_orders_by_priority appends the order to
order_category(order) ==
    LET tags == order.tags
    IN  IF "vip" \in tags /\ "wedding" \in tags THEN "vip_wedding"
        ELSE IF "vip" \in tags THEN "vip"
        ELSE IF "wedding" \in tags THEN "wedding"
        ELSE IF "corporate" \in tags THEN "corporate"
        ELSE "regular"

OrderCategories == {"vip_wedding", "vip", "wedding", "corporate", "regular"}

RECURSIVE FilterSeq(_, _, _)
\* the subsequence of s whose elements are in keep(_), in the order of s
FilterSeq(s, i, keep) ==
    IF i > Len(s) THEN <<>>
    ELSE IF s[i] \in keep THEN <<s[i]>> \o FilterSeq(s, i + 1, keep)
    ELSE FilterSeq(s, i + 1, keep)

\* categorize_orders_by_priority with `if` for `elif`: every matching category
categorize_orders_by_priority_EveryMatch(os) ==
    [c \in OrderCategories |->
        FilterSeq(OrderList, 1,
                  {id \in OrderIds :
                      CASE c = "vip_wedding" -> {"vip", "wedding"} \subseteq os[id].tags
                        [] c = "vip" -> "vip" \in os[id].tags
                        [] c = "wedding" -> "wedding" \in os[id].tags
                        [] c = "corporate" -> "corporate" \in os[id].tags
                        [] OTHER -> os[id].tags \cap {"vip", "wedding", "corporate"} = {}})]

\* categorize_orders_by_priority with a vip_corporate tier of its own
categorize_orders_by_priority_VipCorporate(os) ==
    [c \in OrderCategories \cup {"vip_corporate"} |->
        FilterSeq(OrderList, 1,
                  {id \in OrderIds :
                      c = IF {"vip", "corporate"} \subseteq os[id].tags
                             /\ "wedding" \notin os[id].tags
                          THEN "vip_corporate"
                          ELSE order_category(os[id])})]

categorize_orders_by_priority(os) ==
    [c \in OrderCategories |->
        FilterSeq(OrderList, 1, {id \in OrderIds : order_category(os[id]) = c})]

-----------------------------------------------------------------------------
(* src/src/validator.py: the feasibility check *)

\* has_sufficient_buffer accepting any gap between non-overlapping orders
has_sufficient_buffer_AnyGap(order1, order2) ==
    IF order1.teardown_time <= order2.pickup_time
    THEN (order2.pickup_time - order1.teardown_time) >= 0
    ELSE IF order2.teardown_time <= order1.pickup_time
    THEN (order1.pickup_time - order2.teardown_time) >= 0
    ELSE FALSE

\* has_sufficient_buffer looking in one direction only (order1 before order2)
has_sufficient_buffer_OneDirection(order1, order2) ==
    IF order1.teardown_time <= order2.pickup_time
    THEN (order2.pickup_time - order1.teardown_time) >= min_buffer_time_minutes
    ELSE FALSE

has_sufficient_buffer(order1, order2) ==
    IF order1.teardown_time <= order2.pickup_time
    THEN (order2.pickup_time - order1.teardown_time) >= min_buffer_time_minutes
    ELSE IF order2.teardown_time <= order1.pickup_time
    THEN (order1.pickup_time - order2.teardown_time) >= min_buffer_time_minutes
    ELSE FALSE

RECURSIVE FirstConflict(_, _, _)
\* index of the first assigned order in conflict with `order`, 0 if none
FirstConflict(order, assigned_orders, i) ==
    IF i > Len(assigned_orders) THEN 0
    ELSE IF check_time_conflict(order, assigned_orders[i]) THEN i
    ELSE FirstConflict(order, assigned_orders, i + 1)

RECURSIVE FirstShortBuffer(_, _, _)
\* index of the first assigned order without sufficient buffer, 0 if none
FirstShortBuffer(order, assigned_orders, i) ==
    IF i > Len(assigned_orders) THEN 0
    ELSE IF ~has_sufficient_buffer(order, assigned_orders[i]) THEN i
    ELSE FirstShortBuffer(order, assigned_orders, i + 1)

Verdict(ok, rule, id) == [is_feasible |-> ok, rule |-> rule, order_id |-> id]

\* validate_order_feasibility with the capacity test off by one (> for >=)
validate_order_feasibility_OffByOne(order, driver, assigned_orders) ==
    LET max_capacity == driver.max_orders_per_day
        c == FirstConflict(order, assigned_orders, 1)
        b == FirstShortBuffer(order, assigned_orders, 1)
    IN  IF Len(assigned_orders) > max_capacity
        THEN Verdict(FALSE, "Driver at capacity", NoValue)
        ELSE IF ~has_required_capabilities(driver, order)
        THEN Verdict(FALSE, "Missing required capabilities", NoValue)
        ELSE IF c # 0
        THEN Verdict(FALSE, "Time conflict with order", assigned_orders[c].order_id)
        ELSE IF b # 0
        THEN Verdict(FALSE, "Insufficient buffer time with order", assigned_orders[b].order_id)
        ELSE Verdict(TRUE, "Feasible", NoValue)

\* validate_order_feasibility with the buffer loop ahead of the conflict loop
validate_order_feasibility_BufferFirst(order, driver, assigned_orders) ==
    LET max_capacity == driver.max_orders_per_day
        c == FirstConflict(order, assigned_orders, 1)
        b == FirstShortBuffer(order, assigned_orders, 1)
    IN  IF Len(assigned_orders) >= max_capacity
        THEN Verdict(FALSE, "Driver at capacity", NoValue)
        ELSE IF ~has_required_capabilities(driver, order)
        THEN Verdict(FALSE, "Missing required capabilities", NoValue)
        ELSE IF b # 0
        THEN Verdict(FALSE, "Insufficient buffer time with order", assigned_orders[b].order_id)
        ELSE IF c # 0
        THEN Verdict(FALSE, "Time conflict with order", assigned_orders[c].order_id)
        ELSE Verdict(TRUE, "Feasible", NoValue)

\* validate_order_feasibility without the buffer rule
validate_order_feasibility_OverlapOnly(order, driver, assigned_orders) ==
    LET c == FirstConflict(order, assigned_orders, 1)
    IN  IF Len(assigned_orders) >= driver.max_orders_per_day
        THEN Verdict(FALSE, "Driver at capacity", NoValue)
        ELSE IF ~has_required_capabilities(driver, order)
        THEN Verdict(FALSE, "Missing required capabilities", NoValue)
        ELSE IF c # 0
        THEN Verdict(FALSE, "Time conflict with order", assigned_orders[c].order_id)
        ELSE Verdict(TRUE, "Feasible", NoValue)

validate_order_feasibility(order, driver, assigned_orders) ==
    LET max_capacity == driver.max_orders_per_day
        c == FirstConflict(order, assigned_orders, 1)
        b == FirstShortBuffer(order, assigned_orders, 1)
    IN  IF Len(assigned_orders) >= max_capacity
        THEN Verdict(FALSE, "Driver at capacity", NoValue)
        ELSE IF ~has_required_capabilities(driver, order)
        THEN Verdict(FALSE, "Missing required capabilities", NoValue)
        ELSE IF c # 0
        THEN Verdict(FALSE, "Time conflict with order", assigned_orders[c].order_id)
        ELSE IF b # 0
        THEN Verdict(FALSE, "Insufficient buffer time with order", assigned_orders[b].order_id)
        ELSE Verdict(TRUE, "Feasible", NoValue)

-----------------------------------------------------------------------------
(* src/src/preprocessor.py *)

\* number of elements of the sorted list t that stay in front of order id x
KeptBefore(t, x, os) ==
    Cardinality({i \in 1..Len(t) : get_order_priority(os[t[i]]) >= get_order_priority(os[x])})

RECURSIVE SortByPriority_Reversed(_, _, _)
\* an ascending sort read backwards: orders of equal priority change places
SortByPriority_Reversed(s, n, os) ==
    IF n = 0 THEN <<>>
    ELSE LET t == SortByPriority_Reversed(s, n - 1, os)
             k == Cardinality({i \in 1..Len(t) :
                                  get_order_priority(os[t[i]]) > get_order_priority(os[s[n]])})
         IN  SubSeq(t, 1, k) \o <<s[n]>> \o SubSeq(t, k + 1, Len(t))

RECURSIVE SortByPriority(_, _, _)
\* list.sort(key=get_order_priority, reverse=True) of the first n elements of s: stable
SortByPriority(s, n, os) ==
    IF n = 0 THEN <<>>
    ELSE LET t == SortByPriority(s, n - 1, os)
             k == KeptBefore(t, s[n], os)
         IN  SubSeq(t, 1, k) \o <<s[n]>> \o SubSeq(t, k + 1, Len(t))

preprocess_orders(os) ==
    LET cat == categorize_orders_by_priority(os)
    IN  [c \in DOMAIN cat |-> SortByPriority(cat[c], Len(cat[c]), os)]

\* _categorize_drivers asking for corporate or seminars first
driver_category_CorporateFirst(driver) ==
    LET capabilities == driver.capabilities
    IN  IF "corporate" \in capabilities \/ "seminars" \in capabilities THEN "corporate_capable"
        ELSE IF "wedding" \in capabilities \/ "vip" \in capabilities THEN "wedding_capable"
        ELSE "general"

driver_category(driver) ==
    LET capabilities == driver.capabilities
    IN  IF "wedding" \in capabilities \/ "vip" \in capabilities THEN "wedding_capable"
        ELSE IF "corporate" \in capabilities \/ "seminars" \in capabilities THEN "corporate_capable"
        ELSE "general"

DriverCategories == {"wedding_capable", "corporate_capable", "general"}

categorize_drivers(ds) ==
    [c \in DriverCategories |->
        FilterSeq(DriverList, 1, {id \in DriverIds : driver_category(ds[id]) = c})]

Regions == {"north", "south"}

IterationOrders(S) ==
    {p \in [1..Cardinality(S) -> S] : \A i, j \in 1..Cardinality(S) : p[i] = p[j] => i = j}

RECURSIVE SumOver(_, _)
\* sum of f[x] for x in the finite set S
SumOver(f, S) ==
    IF S = {} THEN 0
    ELSE LET x == CHOOSE y \in S : TRUE IN f[x] + SumOver(f, S \ {x})

\* the entries of _generate_statistics that the allocation reads or reports
generate_statistics(os, ds, co, cd) ==
    [total_orders |-> Len(OrderList),
     total_drivers |-> Len(DriverList),
     wedding_orders |-> Len(co["vip_wedding"]) + Len(co["vip"]) + Len(co["wedding"]),
     wedding_drivers |-> Len(cd["wedding_capable"]),
     total_capacity |-> SumOver([d \in DriverIds |-> ds[d].max_orders_per_day], DriverIds),
     orders_by_region |-> [r \in Regions |-> Cardinality({id \in OrderIds : os[id].region = r})],
     drivers_by_region |->
        [r \in Regions |-> Cardinality({id \in DriverIds : ds[id].preferred_region = r})]]

Warning(kind, subject, count, total) ==
    [kind |-> kind, subject |-> subject, count |-> count, total |-> total]

RECURSIVE RegionWarnings(_, _, _, _)
\* the region loop of _identify_constraints, over the regions in iteration order
RegionWarnings(region_order, i, order_counts, driver_counts) ==
    IF i > Len(region_order) THEN <<>>
    ELSE LET region == region_order[i]
             order_count == order_counts[region]
             driver_count == driver_counts[region]
         IN  (IF order_count > 0 /\ driver_count = 0
              THEN <<Warning("region has orders but no preferred drivers", region,
                             order_count, 0)>>
              ELSE IF driver_count > 0 /\ order_count > 6 * driver_count
              THEN <<Warning("region overloaded", region, order_count, driver_count)>>
              ELSE <<>>)
             \o RegionWarnings(region_order, i + 1, order_counts, driver_counts)

\* the critical and warning lists of _identify_constraints
identify_constraints(os, ds, co, cd, region_order) ==
    LET wedding_orders_count == Len(co["vip_wedding"]) + Len(co["vip"]) + Len(co["wedding"])
        wedding_drivers_count == Len(cd["wedding_capable"])
        wedding_capacity ==
            SumOver([d \in DriverIds |-> ds[d].max_orders_per_day], Range(cd["wedding_capable"]))
        st == generate_statistics(os, ds, co, cd)
    IN  [critical |->
            IF wedding_orders_count > 0 /\ wedding_orders_count > wedding_capacity
            THEN <<Warning("wedding orders exceed wedding driver capacity", NoValue,
                           wedding_orders_count, wedding_capacity)>>
            ELSE <<>>,
         warnings |->
            (IF /\ wedding_orders_count > 0
                /\ wedding_orders_count <= wedding_capacity
                /\ wedding_orders_count > wedding_drivers_count * 2
             THEN <<Warning("high wedding order load", NoValue, wedding_orders_count,
                            wedding_drivers_count)>>
             ELSE <<>>)
            \o RegionWarnings(region_order, 1, st.orders_by_region, st.drivers_by_region)]

-----------------------------------------------------------------------------
(* src/src/ai_allocator.py: the stages *)

LastStage == 6

\* the orders a stage of allocate_orders passes to _allocate_priority_orders
StageOrders(st, co) ==
    CASE st = 1 -> co["vip_wedding"]
      [] st = 2 -> IF "vip_corporate" \in DOMAIN co THEN co["vip_corporate"] ELSE <<>>
      [] st = 3 -> co["vip"]
      [] st = 4 -> co["wedding"]
      [] st = 5 -> co["corporate"]
      [] st = 6 -> co["regular"]

\* every stage offered all the drivers
StagePool_AllDrivers(st, cd) == DriverList

\* the available_drivers a stage passes
StagePool(st, cd) ==
    CASE st = 1 -> cd["wedding_capable"]
      [] st = 2 -> cd["corporate_capable"]
      [] st = 3 -> cd["wedding_capable"]
      [] st = 4 -> cd["wedding_capable"]
      [] st = 5 -> cd["corporate_capable"] \o cd["general"]
      [] st = 6 -> DriverList

\* the pool offered whole, full drivers included
DriversWithCapacity_Unfiltered(pool, ds, da) == pool

\* drivers_with_capacity of _allocate_priority_orders
DriversWithCapacity(pool, ds, da) ==
    FilterSeq(pool, 1, {d \in DriverIds : Len(da[d]) < ds[d].max_orders_per_day})

OrderDicts(ids, os) == [i \in 1..Len(ids) |-> os[ids[i]]]

RECURSIVE ValidateEach(_, _, _, _, _, _, _, _)
RECURSIVE ValidateEach_AgainstEntry(_, _, _, _, _, _, _, _)
RECURSIVE ValidateEach_StopsAtUnknown(_, _, _, _, _, _, _, _)
\* the inner loop of _parse_ai_allocations over order_ids[i..], for one driver:
\* cur is driver_assignments[driver_id], assigned is assigned_orders, ids is
\* allocated_order_ids
\* the inner loop with every id checked against the driver's list as the entry found it
ValidateEach_AgainstEntry(order_ids, i, driver, order_map, os, cur, assigned, ids) ==
    IF i > Len(order_ids) THEN [cur |-> cur, assigned |-> assigned, ids |-> ids]
    ELSE IF order_ids[i] \notin order_map
    THEN ValidateEach_AgainstEntry(order_ids, i + 1, driver, order_map, os, cur, assigned, ids)
    ELSE IF validate_order_feasibility(
                os[order_ids[i]], driver,
                OrderDicts(SubSeq(cur, 1, Len(cur) - Len(assigned)), os)).is_feasible
    THEN ValidateEach_AgainstEntry(order_ids, i + 1, driver, order_map, os,
                                   Append(cur, order_ids[i]), Append(assigned, order_ids[i]),
                                   ids \cup {order_ids[i]})
    ELSE ValidateEach_AgainstEntry(order_ids, i + 1, driver, order_map, os, cur, assigned, ids)

\* the inner loop left at the first id that is not in order_map
ValidateEach_StopsAtUnknown(order_ids, i, driver, order_map, os, cur, assigned, ids) ==
    IF i > Len(order_ids) \/ order_ids[i] \notin order_map
    THEN [cur |-> cur, assigned |-> assigned, ids |-> ids]
    ELSE IF validate_order_feasibility(os[order_ids[i]], driver, OrderDicts(cur, os)).is_feasible
    THEN ValidateEach_StopsAtUnknown(order_ids, i + 1, driver, order_map, os,
                                     Append(cur, order_ids[i]), Append(assigned, order_ids[i]),
                                     ids \cup {order_ids[i]})
    ELSE ValidateEach_StopsAtUnknown(order_ids, i + 1, driver, order_map, os, cur, assigned,
                                     ids)

ValidateEach(order_ids, i, driver, order_map, os, cur, assigned, ids) ==
    IF i > Len(order_ids) THEN [cur |-> cur, assigned |-> assigned, ids |-> ids]
    ELSE IF order_ids[i] \notin order_map
    THEN ValidateEach(order_ids, i + 1, driver, order_map, os, cur, assigned, ids)
    ELSE IF validate_order_feasibility(os[order_ids[i]], driver, OrderDicts(cur, os)).is_feasible
    THEN ValidateEach(order_ids, i + 1, driver, order_map, os,
                      Append(cur, order_ids[i]), Append(assigned, order_ids[i]),
                      ids \cup {order_ids[i]})
    ELSE ValidateEach(order_ids, i + 1, driver, order_map, os, cur, assigned, ids)

-----------------------------------------------------------------------------
(* Inputs: the contents of orders.json and drivers.json *)

OrderWindow ==
    [id \in OrderIds |->
        CASE id = "O1" -> <<540, 600>>      \* 09:00 - 10:00
          [] id = "O2" -> <<570, 630>>      \* 09:30 - 10:30, overlaps O1
          [] id = "O3" -> <<640, 700>>]     \* 10:40 - 11:40, 10 minutes after O2

OrderRegion == [id \in OrderIds |-> IF id = "O2" THEN "south" ELSE "north"]

DriverRegion == [id \in DriverIds |-> IF id = "D1" THEN "north" ELSE "south"]

\* the tag sets of (O1, O2, O3) in the inputs explored
OrderTagInputs ==
    { <<{"vip", "wedding"}, {"wedding"}, {}>>,
      <<{"wedding"}, {"wedding"}, {"vip", "corporate"}>>,
      <<{"vip", "wedding"}, {"corporate"}, {"corporate", "early_setup"}>>,
      <<{"wedding"}, {"vip"}, {}>>,
      <<{"wedding"}, {"corporate"}, {}>>,
      <<{}, {}, {}>> }

\* the capability sets of (D1, D2) in the inputs explored
DriverCapabilityInputs ==
    { <<{"wedding", "vip"}, {"wedding", "vip"}>>,
      <<{"wedding"}, {"wedding", "vip"}>>,
      <<{"wedding", "vip", "corporate"}, {"corporate"}>>,
      <<{"wedding", "vip"}, {}>>,
      <<{"seminars"}, {"corporate"}>>,
      <<{"vip"}, {"corporate"}>> }

IndexOf(s, x) == CHOOSE i \in 1..Len(s) : s[i] = x

OrderDict(id, keys, tags) ==
    [order_id |-> id, keys |-> keys, tags |-> tags,
     pickup_time |-> OrderWindow[id][1], teardown_time |-> OrderWindow[id][2],
     region |-> OrderRegion[id]]

DriverDict(id, keys, capabilities, max) ==
    [driver_id |-> id, keys |-> keys, capabilities |-> capabilities,
     max_orders_per_day |-> max, preferred_region |-> DriverRegion[id]]

\* well-formed inputs
ValidOrderInputs ==
    {[id \in OrderIds |-> OrderDict(id, RequiredOrderFields, t[IndexOf(OrderList, id)])] :
        t \in OrderTagInputs}

ValidDriverInputs ==
    {[id \in DriverIds |->
         DriverDict(id, RequiredDriverFields, c[IndexOf(DriverList, id)], m[id])] :
        c \in DriverCapabilityInputs, m \in [DriverIds -> 0..MaxCap]}

\* inputs in which every dict lacks at most one required key, and one lacks one
Lacking(fields) == {fields} \cup {fields \ {f} : f \in fields}

IncompleteOrderInputs ==
    {[id \in OrderIds |-> OrderDict(id, k[id], {})] : k \in [OrderIds -> Lacking(RequiredOrderFields)]}

IncompleteDriverInputs ==
    {[id \in DriverIds |-> DriverDict(id, k[id], {}, 1)] :
        k \in [DriverIds -> Lacking(RequiredDriverFields)]}

NoCall == [fn |-> "none"]

RunInit ==
    /\ pc = "init"
    /\ stage = 0
    /\ categorized_orders = [c \in OrderCategories |-> <<>>]
    /\ categorized_drivers = [c \in DriverCategories |-> <<>>]
    /\ preprocessed_data = Nothing
    /\ driver_assignments = [d \in DriverIds |-> <<>>]
    /\ allocations = <<>>
    /\ allocated_order_ids = {}
    /\ driver_map = <<>>
    /\ stage_allocations = <<>>
    /\ stage_allocated_ids = {}
    /\ parsed = 0
    /\ stage_entry = [d \in DriverIds |-> <<>>]
    /\ llm_calls = [s \in 1..LastStage |-> 0]
    /\ ai_results = Nothing
    /\ unallocation_reason = [id \in OrderIds |-> ""]
    /\ validation_errors = <<>>
    /\ validation_warnings = <<>>
    /\ allocation_result = Nothing

Init ==
    /\ \/ orders \in ValidOrderInputs /\ drivers \in ValidDriverInputs
       \/ /\ orders \in IncompleteOrderInputs
          /\ drivers \in IncompleteDriverInputs
          /\ ~ /\ \A id \in OrderIds : orders[id].keys = RequiredOrderFields
               /\ \A id \in DriverIds : drivers[id].keys = RequiredDriverFields
    /\ RunInit
    /\ call_args = NoCall
    /\ call_ret = Nothing

-----------------------------------------------------------------------------
(* DeliveryAllocator.__init__ and the head of allocate *)

\* __init__: validate_data raises, the constructor fails and nothing else runs
ValidateDataRaises ==
    /\ pc = "init"
    /\ validate_data_raises(orders, drivers)
    /\ pc' = "input_error"
    /\ UNCHANGED <<orders, drivers, stage, categorized_orders, categorized_drivers,
                   preprocessed_data, driver_assignments, allocations, allocated_order_ids, driver_map,
                   stage_allocations, stage_allocated_ids, parsed, stage_entry, llm_calls,
                   ai_results, unallocation_reason, validation_errors,
                   validation_warnings, allocation_result, call_args, call_ret>>

\* __init__: validate_data passes
ValidateDataPasses ==
    /\ pc = "init"
    /\ ~validate_data_raises(orders, drivers)
    /\ pc' = "constructed"
    /\ UNCHANGED <<orders, drivers, stage, categorized_orders, categorized_drivers,
                   preprocessed_data, driver_assignments, allocations, allocated_order_ids, driver_map,
                   stage_allocations, stage_allocated_ids, parsed, stage_entry, llm_calls,
                   ai_results, unallocation_reason, validation_errors,
                   validation_warnings, allocation_result, call_args, call_ret>>

\* allocate: preprocess(), then allocate_orders up to its first stage
Preprocess ==
    /\ pc = "constructed"
    /\ categorized_orders' = preprocess_orders(orders)
    /\ categorized_drivers' = categorize_drivers(drivers)
    /\ \E region_order \in IterationOrders(Regions) :
          preprocessed_data' =
             [stats |-> generate_statistics(orders, drivers, preprocess_orders(orders),
                                            categorize_drivers(drivers)),
              constraints |-> identify_constraints(orders, drivers, preprocess_orders(orders),
                                                   categorize_drivers(drivers), region_order)]
    /\ driver_assignments' = [d \in DriverIds |-> <<>>]
    /\ allocations' = <<>>
    /\ allocated_order_ids' = {}
    /\ stage' = 1
    /\ pc' = "stage"
    /\ UNCHANGED <<orders, drivers, driver_map, stage_allocations, stage_allocated_ids,
                   parsed, stage_entry, llm_calls, ai_results, unallocation_reason,
                   validation_errors, validation_warnings, allocation_result,
                   call_args, call_ret>>

-----------------------------------------------------------------------------
(* AIAllocator.allocate_orders: one stage *)

inputVars == <<orders, drivers, categorized_orders, categorized_drivers, preprocessed_data>>
reportVars == <<ai_results, unallocation_reason, validation_errors, validation_warnings,
                allocation_result>>
callVars == <<call_args, call_ret>>

ProposedDriverIds == DriverIds \cup {"DRV-X", ""}
ProposedOrderIds == OrderIds \cup {"Q-X"}
OrderIdLists(n) == UNION {[1..k -> ProposedOrderIds] : k \in 0..n}
Reasonings == {"", "A"}

InStage == pc = "stage" /\ stage \in 1..LastStage

\* the stage's result is added to the accumulators and the next stage is up
StageReturns(allocs, ids) ==
    /\ allocations' = allocations \o allocs
    /\ allocated_order_ids' = allocated_order_ids \cup ids
    /\ stage' = stage + 1
    /\ pc' = "stage"
    /\ driver_map' = <<>>
    /\ stage_allocations' = <<>>
    /\ stage_allocated_ids' = {}
    /\ parsed' = 0

\* `if <category>_orders:` is false: the stage's block is skipped
StageSkipped ==
    /\ InStage
    /\ StageOrders(stage, categorized_orders) = <<>>
    /\ stage' = stage + 1
    /\ stage_entry' = driver_assignments
    /\ UNCHANGED <<pc, driver_assignments, allocations, allocated_order_ids, driver_map,
                   stage_allocations, stage_allocated_ids, parsed, llm_calls>>
    /\ UNCHANGED <<inputVars, reportVars, callVars>>

\* a stage without a driver with capacity as an error that ends the run
StageNoCapacity_Raises ==
    /\ InStage
    /\ StageOrders(stage, categorized_orders) # <<>>
    /\ DriversWithCapacity(StagePool(stage, categorized_drivers), drivers,
                           driver_assignments) = <<>>
    /\ pc' = "aborted"
    /\ UNCHANGED <<stage, driver_assignments, allocations, allocated_order_ids, driver_map,
                   stage_allocations, stage_allocated_ids, parsed, stage_entry, llm_calls>>
    /\ UNCHANGED <<inputVars, reportVars, callVars>>

\* _allocate_priority_orders finds no driver of the pool with capacity left
StageNoCapacity ==
    /\ InStage
    /\ StageOrders(stage, categorized_orders) # <<>>
    /\ DriversWithCapacity(StagePool(stage, categorized_drivers), drivers,
                           driver_assignments) = <<>>
    /\ StageReturns(<<>>, {})
    /\ stage_entry' = driver_assignments
    /\ UNCHANGED <<driver_assignments, llm_calls>>
    /\ UNCHANGED <<inputVars, reportVars, callVars>>

\* a failed call of the llm repeated for the same stage
ProposerFails_Retries ==
    /\ InStage
    /\ StageOrders(stage, categorized_orders) # <<>>
    /\ DriversWithCapacity(StagePool(stage, categorized_drivers), drivers,
                           driver_assignments) # <<>>
    /\ llm_calls[stage] < 2
    /\ llm_calls' = [llm_calls EXCEPT ![stage] = @ + 1]
    /\ stage_entry' = driver_assignments
    /\ UNCHANGED <<pc, stage, driver_assignments, allocations, allocated_order_ids,
                   driver_map, stage_allocations, stage_allocated_ids, parsed>>
    /\ UNCHANGED <<inputVars, reportVars, callVars>>

\* the llm is called and generate, parse_json_response or ai_result.get raises
ProposerFails ==
    /\ InStage
    /\ StageOrders(stage, categorized_orders) # <<>>
    /\ DriversWithCapacity(StagePool(stage, categorized_drivers), drivers,
                           driver_assignments) # <<>>
    /\ llm_calls' = [llm_calls EXCEPT ![stage] = @ + 1]
    /\ StageReturns(<<>>, {})
    /\ stage_entry' = driver_assignments
    /\ UNCHANGED driver_assignments
    /\ UNCHANGED <<inputVars, reportVars, callVars>>

\* the llm is called and answers with a JSON object: _parse_ai_allocations starts
ProposerResponds ==
    /\ InStage
    /\ StageOrders(stage, categorized_orders) # <<>>
    /\ DriversWithCapacity(StagePool(stage, categorized_drivers), drivers,
                           driver_assignments) # <<>>
    /\ llm_calls' = [llm_calls EXCEPT ![stage] = @ + 1]
    /\ driver_map' = DriversWithCapacity(StagePool(stage, categorized_drivers), drivers,
                                         driver_assignments)
    /\ stage_allocations' = <<>>
    /\ stage_allocated_ids' = {}
    /\ parsed' = 0
    /\ stage_entry' = driver_assignments
    /\ pc' = "parsing"
    /\ UNCHANGED <<stage, driver_assignments, allocations, allocated_order_ids>>
    /\ UNCHANGED <<inputVars, reportVars, callVars>>

\* the inner loop with every order of the run in order_map
Validated_AnyOrder(driver_id, order_ids) ==
    ValidateEach(order_ids, 1, drivers[driver_id], OrderIds, orders,
                 driver_assignments[driver_id], <<>>, stage_allocated_ids)

\* the effect of the inner loop for a known driver
Validated(driver_id, order_ids) ==
    ValidateEach(order_ids, 1, drivers[driver_id],
                 Range(StageOrders(stage, categorized_orders)), orders,
                 driver_assignments[driver_id], <<>>, stage_allocated_ids)

\* one iteration of `for allocation in ai_allocations` on a well-formed entry: the
\* entry is skipped when its driver_id is missing or not in driver_map, whatever its
\* order_ids; otherwise the inner loop runs
ParseProposal ==
    /\ pc = "parsing"
    /\ parsed < MaxProposals
    /\ \/ /\ \E driver_id \in ProposedDriverIds :
                driver_id = "" \/ driver_id \notin Range(driver_map)
          /\ UNCHANGED <<driver_assignments, stage_allocations, stage_allocated_ids>>
       \/ \E driver_id \in Range(driver_map) :
             \E r \in {Validated(driver_id, order_ids) : order_ids \in OrderIdLists(MaxIds)} :
                 /\ driver_assignments' = [driver_assignments EXCEPT ![driver_id] = r.cur]
                 /\ stage_allocated_ids' = r.ids
                 /\ IF r.assigned # <<>>
                    THEN \E reasoning \in Reasonings :
                            stage_allocations' =
                               Append(stage_allocations,
                                      [driver |-> driver_id, orders |-> r.assigned,
                                       reasoning |-> reasoning])
                    ELSE UNCHANGED stage_allocations
    /\ parsed' = parsed + 1
    /\ UNCHANGED <<pc, stage, allocations, allocated_order_ids, driver_map, stage_entry,
                   llm_calls>>
    /\ UNCHANGED <<inputVars, reportVars, callVars>>

\* ParseRaises without the except clause: the exception leaves allocate_orders
ParseRaises_Uncaught ==
    /\ pc = "parsing"
    /\ parsed < MaxProposals
    /\ pc' = "aborted"
    /\ UNCHANGED <<stage, driver_assignments, allocations, allocated_order_ids, driver_map,
                   stage_allocations, stage_allocated_ids, parsed, stage_entry, llm_calls>>
    /\ UNCHANGED <<inputVars, reportVars, callVars>>

\* ParseRaises with the commits of the failed stage taken back
ParseRaises_RollsBack ==
    /\ pc = "parsing"
    /\ parsed < MaxProposals
    /\ driver_assignments' = stage_entry
    /\ StageReturns(<<>>, {})
    /\ UNCHANGED <<stage_entry, llm_calls>>
    /\ UNCHANGED <<inputVars, reportVars, callVars>>

\* an iteration raises: the entry is not an object or its driver_id is unhashable
\* (nothing done), or its driver is known and order_ids is not iterable or holds an
\* unhashable id after some well-formed ones; the except clause of
\* _allocate_priority_orders returns an empty stage result
ParseRaises ==
    /\ pc = "parsing"
    /\ parsed < MaxProposals
    /\ \/ UNCHANGED driver_assignments
       \/ \E driver_id \in Range(driver_map) :
             \E r \in {Validated(driver_id, order_ids) :
                           order_ids \in OrderIdLists(MaxIds - 1)} :
                 driver_assignments' = [driver_assignments EXCEPT ![driver_id] = r.cur]
    /\ StageReturns(<<>>, {})
    /\ UNCHANGED <<stage_entry, llm_calls>>
    /\ UNCHANGED <<inputVars, reportVars, callVars>>

\* the response is exhausted: _parse_ai_allocations returns its lists
ParseEnds ==
    /\ pc = "parsing"
    /\ StageReturns(stage_allocations, stage_allocated_ids)
    /\ UNCHANGED <<driver_assignments, stage_entry, llm_calls>>
    /\ UNCHANGED <<inputVars, reportVars, callVars>>

-----------------------------------------------------------------------------
(* AIAllocator._merge_allocations and _get_unallocation_reason *)

\* a quotient num/den of two integers, kept exact
Rat(num, den) == [num |-> num, den |-> den]
RatLess(a, b) == a.num * b.den < b.num * a.den
RatAdd(a, b) == Rat(a.num * b.den + b.num * a.den, a.den * b.den)

RECURSIVE FirstSeen(_, _)
\* the keys of driver_map of _merge_allocations, in insertion order
FirstSeen(allocs, n) ==
    IF n = 0 THEN <<>>
    ELSE LET t == FirstSeen(allocs, n - 1)
         IN  IF allocs[n].driver \in Range(t) THEN t ELSE Append(t, allocs[n].driver)

RECURSIVE MergedOrders(_, _, _)
\* the orders of the entries of allocs[i..] for driver_id, concatenated
MergedOrders(allocs, i, driver_id) ==
    IF i > Len(allocs) THEN <<>>
    ELSE (IF allocs[i].driver = driver_id THEN allocs[i].orders ELSE <<>>)
         \o MergedOrders(allocs, i + 1, driver_id)

\* the reasoning of the entry that created driver_map[driver_id]
FirstReasoning(allocs, driver_id) ==
    allocs[CHOOSE i \in 1..Len(allocs) :
              /\ allocs[i].driver = driver_id
              /\ \A j \in 1..(i - 1) : allocs[j].driver # driver_id].reasoning

\* the utilization as a fraction of one, without the factor 100
Utilization_Fraction(n, max_orders) == Rat(n, max_orders)

Utilization(n, max_orders) == Rat(n * 100, max_orders)

RECURSIVE SortByUtilization(_, _)
\* final_allocations.sort(key=utilization, reverse=True) of the first n entries: stable
SortByUtilization(s, n) ==
    IF n = 0 THEN <<>>
    ELSE LET t == SortByUtilization(s, n - 1)
             k == Cardinality({i \in 1..Len(t) : ~RatLess(t[i].utilization, s[n].utilization)})
         IN  SubSeq(t, 1, k) \o <<s[n]>> \o SubSeq(t, k + 1, Len(t))

merge_allocations(allocs, ds) ==
    LET seen == FirstSeen(allocs, Len(allocs))
        final == [i \in 1..Len(seen) |->
                    LET os == MergedOrders(allocs, 1, seen[i])
                    IN  [driver |-> seen[i], orders |-> os,
                         reasoning |-> FirstReasoning(allocs, seen[i]),
                         utilization |-> Utilization(Len(os), ds[seen[i]].max_orders_per_day)]]
    IN  SortByUtilization(final, Len(final))

HasSpace(d, ds, da) == Len(da[d]) < ds[d].max_orders_per_day

get_unallocation_reason(order, ds, da) ==
    LET capable_drivers == {d \in DriverIds : "wedding" \in ds[d].capabilities
                                              \/ "vip" \in ds[d].capabilities}
    IN  IF ("wedding" \in order.tags \/ "vip" \in order.tags) /\ capable_drivers = {}
        THEN "No drivers with wedding/VIP capabilities available"
        ELSE IF /\ ("wedding" \in order.tags \/ "vip" \in order.tags)
                /\ \A d \in capable_drivers : ~HasSpace(d, ds, da)
        THEN "All wedding-capable drivers at full capacity"
        ELSE IF \A d \in DriverIds : ~HasSpace(d, ds, da)
        THEN "All drivers at full capacity"
        ELSE "Time conflicts or regional constraints prevented allocation"

\* the tail of allocate_orders: merge, unallocated orders and their reasons
Finish ==
    /\ pc = "stage"
    /\ stage = LastStage + 1
    /\ LET unallocated_orders == FilterSeq(OrderList, 1, OrderIds \ allocated_order_ids)
       IN  /\ ai_results' = [allocations |-> merge_allocations(allocations, drivers),
                             allocated_order_ids |-> allocated_order_ids,
                             unallocated_orders |-> unallocated_orders]
           /\ unallocation_reason' =
                 [id \in OrderIds |->
                    IF id \in Range(unallocated_orders)
                    THEN get_unallocation_reason(orders[id], drivers, driver_assignments)
                    ELSE unallocation_reason[id]]
    /\ pc' = "allocated"
    /\ UNCHANGED <<stage, driver_assignments, allocations, allocated_order_ids, driver_map,
                   stage_allocations, stage_allocated_ids, parsed, stage_entry, llm_calls,
                   validation_errors, validation_warnings, allocation_result>>
    /\ UNCHANGED <<inputVars, callVars>>

-----------------------------------------------------------------------------
(* src/src/validator.py: AllocationValidator *)

Error(kind, driver_id, order_id, other) ==
    [kind |-> kind, driver_id |-> driver_id, order_id |-> order_id, other |-> other]

RECURSIVE CapabilityErrors(_, _, _, _, _)
\* the capability loop of _validate_driver_allocation
CapabilityErrors(driver_id, order_ids, i, os, ds) ==
    IF i > Len(order_ids) THEN <<>>
    ELSE (IF ~has_required_capabilities(ds[driver_id], os[order_ids[i]])
          THEN <<Error("lacks required capabilities", driver_id, order_ids[i], NoValue)>>
          ELSE <<>>)
         \o CapabilityErrors(driver_id, order_ids, i + 1, os, ds)

RECURSIVE find_time_conflicts_in_orders_WithBuffer(_, _, _, _)
\* the scan of the pairs with the buffer rule applied as well
find_time_conflicts_in_orders_WithBuffer(order_ids, i, j, os) ==
    IF i > Len(order_ids) THEN <<>>
    ELSE IF j > Len(order_ids)
    THEN find_time_conflicts_in_orders_WithBuffer(order_ids, i + 1, i + 2, os)
    ELSE (IF \/ check_time_conflict(os[order_ids[i]], os[order_ids[j]])
             \/ ~has_sufficient_buffer(os[order_ids[i]], os[order_ids[j]])
          THEN <<<<order_ids[i], order_ids[j]>>>>
          ELSE <<>>)
         \o find_time_conflicts_in_orders_WithBuffer(order_ids, i, j + 1, os)

RECURSIVE find_time_conflicts_in_orders(_, _, _, _)
\* the pairs (i, j), i < j, of conflicting orders, in the order of the two loops
find_time_conflicts_in_orders(order_ids, i, j, os) ==
    IF i > Len(order_ids) THEN <<>>
    ELSE IF j > Len(order_ids) THEN find_time_conflicts_in_orders(order_ids, i + 1, i + 2, os)
    ELSE (IF check_time_conflict(os[order_ids[i]], os[order_ids[j]])
          THEN <<<<order_ids[i], order_ids[j]>>>>
          ELSE <<>>)
         \o find_time_conflicts_in_orders(order_ids, i, j + 1, os)

\* _validate_driver_allocation without its capacity check
validate_driver_allocation_NoCapacity(allocation, os, ds) ==
    LET driver_id == allocation.driver
        order_ids == allocation.orders
        conflicts == IF Len(order_ids) > 1
                     THEN find_time_conflicts_in_orders(order_ids, 1, 2, os)
                     ELSE <<>>
    IN  CapabilityErrors(driver_id, order_ids, 1, os, ds)
        \o [k \in 1..Len(conflicts) |->
               Error("time conflict", driver_id, conflicts[k][1], conflicts[k][2])]

\* _validate_driver_allocation counting a driver filled to its capacity as over it
validate_driver_allocation_AtCapacity(allocation, os, ds) ==
    LET driver_id == allocation.driver
        order_ids == allocation.orders
        conflicts == IF Len(order_ids) > 1
                     THEN find_time_conflicts_in_orders(order_ids, 1, 2, os)
                     ELSE <<>>
    IN  (IF Len(order_ids) >= ds[driver_id].max_orders_per_day
         THEN <<Error("exceeds capacity", driver_id, NoValue, NoValue)>>
         ELSE <<>>)
        \o CapabilityErrors(driver_id, order_ids, 1, os, ds)
        \o [k \in 1..Len(conflicts) |->
               Error("time conflict", driver_id, conflicts[k][1], conflicts[k][2])]

\* the errors _validate_driver_allocation appends for one allocation
validate_driver_allocation(allocation, os, ds) ==
    LET driver_id == allocation.driver
        order_ids == allocation.orders
        conflicts == IF Len(order_ids) > 1
                     THEN find_time_conflicts_in_orders(order_ids, 1, 2, os)
                     ELSE <<>>
    IN  (IF Len(order_ids) > ds[driver_id].max_orders_per_day
         THEN <<Error("exceeds capacity", driver_id, NoValue, NoValue)>>
         ELSE <<>>)
        \o CapabilityErrors(driver_id, order_ids, 1, os, ds)
        \o [k \in 1..Len(conflicts) |->
               Error("time conflict", driver_id, conflicts[k][1], conflicts[k][2])]

\* _check_regional_efficiency warning from a mismatch ratio of one half on (>= 0.5)
check_regional_efficiency_FromHalf(allocation, os, ds) ==
    LET order_ids == allocation.orders
        mismatched_orders == {i \in 1..Len(order_ids) :
                                 os[order_ids[i]].region # ds[allocation.driver].preferred_region}
    IN  IF /\ mismatched_orders # {}
           /\ 2 * Cardinality(mismatched_orders) >= Len(order_ids)
        THEN <<Warning("orders outside preferred region", allocation.driver,
                       Cardinality(mismatched_orders), Len(order_ids))>>
        ELSE <<>>

\* the warning _check_regional_efficiency appends for one allocation
check_regional_efficiency(allocation, os, ds) ==
    LET order_ids == allocation.orders
        mismatched_orders == {i \in 1..Len(order_ids) :
                                 os[order_ids[i]].region # ds[allocation.driver].preferred_region}
    IN  IF /\ mismatched_orders # {}
           /\ 2 * Cardinality(mismatched_orders) > Len(order_ids)
        THEN <<Warning("orders outside preferred region", allocation.driver,
                       Cardinality(mismatched_orders), Len(order_ids))>>
        ELSE <<>>

RECURSIVE Flatten(_, _)
\* the (driver, order) pairs of allocs[i..] in the order the duplicate scan visits them
Flatten(allocs, i) ==
    IF i > Len(allocs) THEN <<>>
    ELSE [k \in 1..Len(allocs[i].orders) |->
             [driver |-> allocs[i].driver, order |-> allocs[i].orders[k]]]
         \o Flatten(allocs, i + 1)

RECURSIVE DuplicateErrors(_, _)
\* _check_duplicate_assignments over the flattened pairs, from pair k on
DuplicateErrors(pairs, k) ==
    IF k > Len(pairs) THEN <<>>
    ELSE LET earlier == {j \in 1..(k - 1) : pairs[j].order = pairs[k].order}
         IN  (IF earlier # {}
              THEN <<Error("assigned to multiple drivers", pairs[k].driver, pairs[k].order,
                           pairs[CHOOSE j \in earlier : \A m \in earlier : j <= m].driver)>>
              ELSE <<>>)
             \o DuplicateErrors(pairs, k + 1)

RECURSIVE PerDriver(_, _, _, _, _)
\* the loop of validate_allocation over the allocations: errors or warnings
PerDriver(allocs, i, os, ds, want_errors) ==
    IF i > Len(allocs) THEN <<>>
    ELSE (IF want_errors THEN validate_driver_allocation(allocs[i], os, ds)
          ELSE check_regional_efficiency(allocs[i], os, ds))
         \o PerDriver(allocs, i + 1, os, ds, want_errors)

ValidationErrors(allocs, os, ds) ==
    PerDriver(allocs, 1, os, ds, TRUE) \o DuplicateErrors(Flatten(allocs, 1), 1)

ValidationWarnings(allocs, os, ds) == PerDriver(allocs, 1, os, ds, FALSE)

validate_allocation(allocs, os, ds) == ValidationErrors(allocs, os, ds) = <<>>

-----------------------------------------------------------------------------
(* DeliveryAllocator.allocate after allocate_orders returned *)

RECURSIVE SumUtilization(_, _)
SumUtilization(allocs, n) ==
    IF n = 1 THEN allocs[1].utilization
    ELSE RatAdd(SumUtilization(allocs, n - 1), allocs[n].utilization)

regional_distribution(allocs, os) ==
    LET pairs == Flatten(allocs, 1)
    IN  [r \in {os[pairs[k].order].region : k \in 1..Len(pairs)} |->
            Cardinality({k \in 1..Len(pairs) : os[pairs[k].order].region = r})]

\* the metrics dict: the preprocessing stats plus the allocation figures
Metrics(stats, results, os) ==
    LET n == Len(results.allocations)
        base == [total_orders |-> stats.total_orders,
                 total_drivers |-> stats.total_drivers,
                 total_capacity |-> stats.total_capacity,
                 total_allocated |-> Cardinality(results.allocated_order_ids),
                 total_unallocated |-> Len(results.unallocated_orders),
                 allocation_rate |->
                    IF Len(OrderList) > 0
                    THEN Rat(Cardinality(results.allocated_order_ids) * 100, Len(OrderList))
                    ELSE Rat(0, 1),
                 total_drivers_used |-> n,
                 regional_distribution |-> regional_distribution(results.allocations, os)]
    IN  IF n > 0
        THEN base @@ [average_utilization |->
                         LET sum == SumUtilization(results.allocations, n)
                         IN  Rat(sum.num, sum.den * n)]
        ELSE base

\* allocate, steps 3 on: validate, collect the warnings, fill in the metrics, return
ValidateAndReport ==
    /\ pc = "allocated"
    /\ validation_errors' = ValidationErrors(ai_results.allocations, orders, drivers)
    /\ validation_warnings' = ValidationWarnings(ai_results.allocations, orders, drivers)
    /\ allocation_result' =
          [allocations |-> ai_results.allocations,
           unallocated_orders |-> ai_results.unallocated_orders,
           metrics |-> Metrics(preprocessed_data.stats, ai_results, orders),
           warnings |-> ValidationWarnings(ai_results.allocations, orders, drivers)
                        \o preprocessed_data.constraints.warnings]
    /\ pc' = "returned"
    /\ UNCHANGED <<stage, driver_assignments, allocations, allocated_order_ids, driver_map,
                   stage_allocations, stage_allocated_ids, parsed, stage_entry, llm_calls,
                   ai_results, unallocation_reason>>
    /\ UNCHANGED <<inputVars, callVars>>

-----------------------------------------------------------------------------
Next ==
    \/ ValidateDataRaises
    \/ ValidateDataPasses
    \/ Preprocess
    \/ StageSkipped
    \/ StageNoCapacity
    \/ ProposerFails
    \/ ProposerResponds
    \/ ParseProposal
    \/ ParseRaises
    \/ ParseEnds
    \/ Finish
    \/ ValidateAndReport

Spec == Init /\ [][Next]_vars

\* the runs on the inputs in which each driver takes one order a day, or a driver
\* dict is incomplete
InitLive ==
    /\ \/ /\ orders \in ValidOrderInputs
          /\ drivers \in ValidDriverInputs
          /\ \A id \in DriverIds : drivers[id].max_orders_per_day = 1
       \/ /\ orders \in IncompleteOrderInputs
          /\ \A id \in OrderIds : orders[id].keys = RequiredOrderFields
          /\ drivers \in IncompleteDriverInputs
          /\ ~ \A id \in DriverIds : drivers[id].keys = RequiredDriverFields
    /\ RunInit
    /\ call_args = NoCall
    /\ call_ret = Nothing

\* the scheduling of a sequential program: the run goes on while it can
LiveSpec == InitLive /\ [][Next]_vars /\ WF_vars(Next)

-----------------------------------------------------------------------------
(* Direct calls of validate_order_feasibility *)

DirectTimes == {540, 600, 610, 615, 660}
DirectWindows == {w \in DirectTimes \X DirectTimes : w[1] < w[2]}
DirectTagSets == {{}, {"vip"}}
DirectCapabilities == {{}, {"vip"}}
AssignedNames == <<"A1", "A2", "A3", "A4">>

DirectOrder(id, window, tags) ==
    [order_id |-> id, keys |-> RequiredOrderFields, tags |-> tags,
     pickup_time |-> window[1], teardown_time |-> window[2], region |-> "north"]

DirectAssignedLists(max_len) ==
    UNION {{[i \in 1..n |-> DirectOrder(AssignedNames[i], w[i], {})] :
               w \in [1..n -> DirectWindows]} : n \in 0..max_len}

FeasibilityCalls(max_len) ==
    {[fn |-> "validate_order_feasibility",
      order |-> DirectOrder("NEW", w, t),
      driver |-> DriverDict("D1", RequiredDriverFields, c, m),
      assigned_orders |-> a] :
        w \in DirectWindows, t \in DirectTagSets, c \in DirectCapabilities,
        m \in 0..(max_len + 1), a \in DirectAssignedLists(max_len)}

\* calls on orders that are picked up and torn down at the same minute
ZeroLengthCalls ==
    {[fn |-> "validate_order_feasibility",
      order |-> DirectOrder("NEW", w, {}),
      driver |-> DriverDict("D1", RequiredDriverFields, {}, 2),
      assigned_orders |-> <<DirectOrder(AssignedNames[1], a, {})>>] :
        w \in {v \in DirectTimes \X DirectTimes : v[1] <= v[2]},
        a \in {v \in DirectTimes \X DirectTimes : v[1] <= v[2]}}

InitFeasibility ==
    /\ orders \in IncompleteOrderInputs
    /\ \A id \in OrderIds : orders[id].keys = RequiredOrderFields
    /\ drivers \in IncompleteDriverInputs
    /\ \A id \in DriverIds : drivers[id].keys = RequiredDriverFields
    /\ RunInit
    /\ call_args \in FeasibilityCalls(MaxAssigned) \cup ZeroLengthCalls
    /\ call_ret = Nothing

\* a feasibility check that commits the order it finds feasible
CallFeasibility_Commits ==
    /\ pc = "init"
    /\ call_args.fn = "validate_order_feasibility"
    /\ call_ret' = validate_order_feasibility(call_args.order, call_args.driver,
                                              call_args.assigned_orders)
    /\ call_args' = IF call_ret'.is_feasible
                    THEN [call_args EXCEPT !.assigned_orders = Append(@, call_args.order)]
                    ELSE call_args
    /\ pc' = "called"
    /\ UNCHANGED <<stage, driver_assignments, allocations, allocated_order_ids, driver_map,
                   stage_allocations, stage_allocated_ids, parsed, stage_entry, llm_calls>>
    /\ UNCHANGED <<inputVars, reportVars>>

CallFeasibility ==
    /\ pc = "init"
    /\ call_args.fn = "validate_order_feasibility"
    /\ call_ret' = validate_order_feasibility(call_args.order, call_args.driver,
                                              call_args.assigned_orders)
    /\ pc' = "called"
    /\ UNCHANGED <<stage, driver_assignments, allocations, allocated_order_ids, driver_map,
                   stage_allocations, stage_allocated_ids, parsed, stage_entry, llm_calls,
                   call_args>>
    /\ UNCHANGED <<inputVars, reportVars>>

\* the same call once more, on the arguments as the first call left them
CallFeasibilityAgain ==
    /\ pc = "called"
    /\ call_args.fn = "validate_order_feasibility"
    /\ call_ret' = [first |-> call_ret,
                    second |-> validate_order_feasibility(call_args.order, call_args.driver,
                                                          call_args.assigned_orders)]
    /\ pc' = "called_again"
    /\ UNCHANGED <<stage, driver_assignments, allocations, allocated_order_ids, driver_map,
                   stage_allocations, stage_allocated_ids, parsed, stage_entry, llm_calls,
                   call_args>>
    /\ UNCHANGED <<inputVars, reportVars>>

NextFeasibility == CallFeasibility \/ CallFeasibilityAgain

SpecFeasibility == InitFeasibility /\ [][NextFeasibility]_vars

-----------------------------------------------------------------------------
(* Direct calls of the helpers of src/utils.py and of has_sufficient_buffer *)

HelperTags == {"vip", "wedding", "corporate", "early_setup", "fragile"}
CategoryTags == {"vip", "wedding", "corporate", "early_setup"}

PairCalls(fn) ==
    {[fn |-> fn, order1 |-> DirectOrder("A1", w1, {}), order2 |-> DirectOrder("A2", w2, {})] :
        w1 \in DirectWindows, w2 \in DirectWindows}

PriorityCalls ==
    {[fn |-> "get_order_priority", order |-> DirectOrder("NEW", <<540, 600>>, t)] :
        t \in SUBSET HelperTags}

CategorizeCalls ==
    {[fn |-> "categorize_orders_by_priority",
      orders |-> [id \in OrderIds |-> OrderDict(id, RequiredOrderFields, t[id])]] :
        t \in [OrderIds -> SUBSET CategoryTags]}

PreprocessCalls ==
    {[fn |-> "preprocess",
      orders |-> [id \in OrderIds |-> OrderDict(id, RequiredOrderFields, t[id])]] :
        t \in [OrderIds -> SUBSET CategoryTags]}

InitHelpers ==
    /\ orders \in IncompleteOrderInputs
    /\ \A id \in OrderIds : orders[id].keys = RequiredOrderFields
    /\ drivers \in IncompleteDriverInputs
    /\ \A id \in DriverIds : drivers[id].keys = RequiredDriverFields
    /\ RunInit
    /\ call_args \in PairCalls("check_time_conflict") \cup PairCalls("has_sufficient_buffer")
                       \cup PriorityCalls \cup CategorizeCalls \cup PreprocessCalls
    /\ call_ret = Nothing

\* what a direct call leaves alone
CallReturns ==
    /\ pc' = "called"
    /\ UNCHANGED <<stage, driver_assignments, allocations, allocated_order_ids, driver_map,
                   stage_allocations, stage_allocated_ids, parsed, stage_entry, llm_calls,
                   call_args>>
    /\ UNCHANGED <<inputVars, reportVars>>

\* check_time_conflict(order1, order2) and check_time_conflict(order2, order1)
CallCheckTimeConflict ==
    /\ pc = "init"
    /\ call_args.fn = "check_time_conflict"
    /\ call_ret' = [ab |-> check_time_conflict(call_args.order1, call_args.order2),
                    ba |-> check_time_conflict(call_args.order2, call_args.order1)]
    /\ CallReturns

\* has_sufficient_buffer(order1, order2, config) and with the orders swapped
CallHasSufficientBuffer ==
    /\ pc = "init"
    /\ call_args.fn = "has_sufficient_buffer"
    /\ call_ret' = [ab |-> has_sufficient_buffer(call_args.order1, call_args.order2),
                    ba |-> has_sufficient_buffer(call_args.order2, call_args.order1)]
    /\ CallReturns

CallGetOrderPriority ==
    /\ pc = "init"
    /\ call_args.fn = "get_order_priority"
    /\ call_ret' = [value |-> get_order_priority(call_args.order)]
    /\ CallReturns

CallCategorize ==
    /\ pc = "init"
    /\ call_args.fn = "categorize_orders_by_priority"
    /\ call_ret' = [value |-> categorize_orders_by_priority(call_args.orders)]
    /\ CallReturns

\* the categorized_orders preprocess returns for the orders of the call
CallPreprocess ==
    /\ pc = "init"
    /\ call_args.fn = "preprocess"
    /\ call_ret' = [value |-> preprocess_orders(call_args.orders)]
    /\ CallReturns

NextHelpers ==
    \/ CallCheckTimeConflict
    \/ CallHasSufficientBuffer
    \/ CallGetOrderPriority
    \/ CallCategorize
    \/ CallPreprocess

SpecHelpers == InitHelpers /\ [][NextHelpers]_vars

-----------------------------------------------------------------------------
(* Direct calls of AllocationValidator.validate_allocation *)

\* the lists of distinct order ids that leave at least one order out
DistinctOrderLists ==
    {l \in UNION {[1..n -> OrderIds] : n \in 0..(Len(OrderList) - 1)} :
        \A i, j \in 1..Len(l) : i # j => l[i] # l[j]}

\* the allocations with at most one entry for each driver, in any order
DirectAllocations ==
    UNION {{[i \in 1..Len(ds) |-> [driver |-> ds[i], orders |-> l[i]]] :
               l \in [1..Len(ds) -> DistinctOrderLists]} :
           ds \in {<<>>, <<"D1">>, <<"D2">>, <<"D1", "D2">>, <<"D2", "D1">>}}

InitValidator ==
    /\ orders \in ValidOrderInputs
    /\ drivers \in ValidDriverInputs
    /\ RunInit
    /\ call_args \in {[fn |-> "validate_allocation", allocations |-> a] :
                         a \in DirectAllocations}
    /\ call_ret = Nothing

\* what the caller sees after validate_allocation: the verdict and the two lists
Report(is_valid, errors, warnings) ==
    [is_valid |-> is_valid, errors |-> errors, warnings |-> warnings]

CallValidate ==
    /\ pc = "init"
    /\ call_args.fn = "validate_allocation"
    /\ validation_errors' = ValidationErrors(call_args.allocations, orders, drivers)
    /\ validation_warnings' = ValidationWarnings(call_args.allocations, orders, drivers)
    /\ call_ret' = Report(validate_allocation(call_args.allocations, orders, drivers),
                          validation_errors', validation_warnings')
    /\ pc' = "called"
    /\ UNCHANGED <<stage, driver_assignments, allocations, allocated_order_ids, driver_map,
                   stage_allocations, stage_allocated_ids, parsed, stage_entry, llm_calls,
                   call_args, ai_results, unallocation_reason, allocation_result>>
    /\ UNCHANGED inputVars

\* a second validate_allocation that keeps the lists of the first call
CallValidateAgain_NoReset ==
    /\ pc = "called"
    /\ call_args.fn = "validate_allocation"
    /\ validation_errors' =
          validation_errors \o ValidationErrors(call_args.allocations, orders, drivers)
    /\ validation_warnings' =
          validation_warnings \o ValidationWarnings(call_args.allocations, orders, drivers)
    /\ call_ret' = [first |-> call_ret,
                    second |-> Report(validation_errors' = <<>>,
                                      validation_errors', validation_warnings')]
    /\ pc' = "called_again"
    /\ UNCHANGED <<stage, driver_assignments, allocations, allocated_order_ids, driver_map,
                   stage_allocations, stage_allocated_ids, parsed, stage_entry, llm_calls,
                   call_args, ai_results, unallocation_reason, allocation_result>>
    /\ UNCHANGED inputVars

\* validate_allocation called again on the same validator and the same allocation
CallValidateAgain ==
    /\ pc = "called"
    /\ call_args.fn = "validate_allocation"
    /\ validation_errors' = ValidationErrors(call_args.allocations, orders, drivers)
    /\ validation_warnings' = ValidationWarnings(call_args.allocations, orders, drivers)
    /\ call_ret' = [first |-> call_ret,
                    second |-> Report(validate_allocation(call_args.allocations, orders,
                                                          drivers),
                                      validation_errors', validation_warnings')]
    /\ pc' = "called_again"
    /\ UNCHANGED <<stage, driver_assignments, allocations, allocated_order_ids, driver_map,
                   stage_allocations, stage_allocated_ids, parsed, stage_entry, llm_calls,
                   call_args, ai_results, unallocation_reason, allocation_result>>
    /\ UNCHANGED inputVars

NextValidator == CallValidate \/ CallValidateAgain

SpecValidator == InitValidator /\ [][NextValidator]_vars

-----------------------------------------------------------------------------
(* Properties of the result of allocate_orders *)

HasResult == pc \in {"allocated", "returned"}

\* the Assignments of the returned result that list the order
AssignmentsOf(id) ==
    {i \in 1..Len(ai_results.allocations) : id \in Range(ai_results.allocations[i].orders)}

IsUnallocated(id) == id \in Range(ai_results.unallocated_orders)

\* C1: in the returned allocations every order id is in at most one driver's order
\* list, whatever the proposer answered
C1_NoDoubleBooking ==
    HasResult => \A id \in OrderIds : Cardinality(AssignmentsOf(id)) <= 1

\* C2: in the result every input order is either in exactly one driver's list or in
\* the unallocated list, never both and never neither; the unallocated orders carry a
\* non-empty unallocation_reason and the allocated ones carry none
C2_Partition ==
    HasResult =>
        \A id \in OrderIds :
            /\ \/ Cardinality(AssignmentsOf(id)) = 1 /\ ~IsUnallocated(id)
               \/ Cardinality(AssignmentsOf(id)) = 0 /\ IsUnallocated(id)
            /\ IsUnallocated(id) <=> unallocation_reason[id] # ""

\* C3: at every point of the run and in the result no driver holds more orders than
\* its max_orders_per_day
C3_Capacity ==
    /\ \A d \in DriverIds : Len(driver_assignments[d]) <= drivers[d].max_orders_per_day
    /\ HasResult =>
          \A i \in 1..Len(ai_results.allocations) :
              Len(ai_results.allocations[i].orders)
                 <= drivers[ai_results.allocations[i].driver].max_orders_per_day

\* a driver of the result is filled to its capacity and an order is left over
C3_Witness ==
    /\ HasResult
    /\ ai_results.unallocated_orders # <<>>
    /\ \E i \in 1..Len(ai_results.allocations) :
          Len(ai_results.allocations[i].orders)
             = drivers[ai_results.allocations[i].driver].max_orders_per_day

GatedTags == {"wedding", "vip", "corporate"}

Compatible(order, driver) == (order.tags \cap GatedTags) \subseteq driver.capabilities

Apart(a, b) ==
    /\ ~(a.pickup_time < b.teardown_time /\ b.pickup_time < a.teardown_time)
    /\ \/ b.pickup_time - a.teardown_time >= min_buffer_time_minutes
       \/ a.pickup_time - b.teardown_time >= min_buffer_time_minutes

PairwiseApart(order_ids) ==
    \A i, j \in 1..Len(order_ids) : i # j => Apart(orders[order_ids[i]], orders[order_ids[j]])

\* C5: any two orders of one driver, committed in the same stage or in different
\* stages, do not overlap and are at least min_buffer_time_minutes apart
C5_NoOverlapAndBuffer ==
    /\ \A d \in DriverIds : PairwiseApart(driver_assignments[d])
    /\ HasResult =>
          \A i \in 1..Len(ai_results.allocations) :
              PairwiseApart(ai_results.allocations[i].orders)

\* a driver of the result holds two orders that were committed in different stages
C5_Witness ==
    /\ HasResult
    /\ \E i \in 1..Len(ai_results.allocations) :
          \E k, m \in 1..Len(ai_results.allocations[i].orders) :
              order_category(orders[ai_results.allocations[i].orders[k]])
                 # order_category(orders[ai_results.allocations[i].orders[m]])

-----------------------------------------------------------------------------
(* Properties of the run *)

\* orders that sit in a driver's running list without being in the accumulators
Uncounted ==
    {id \in OrderIds : /\ \E d \in DriverIds : id \in Range(driver_assignments[d])
                       /\ id \notin allocated_order_ids \cup stage_allocated_ids}

EveryOrderSettled ==
    \A id \in OrderIds :
        \/ id \in allocated_order_ids
        \/ IsUnallocated(id) /\ unallocation_reason[id] # ""

\* C6: whatever the proposer does in each stage, allocate_orders goes through the
\* stages 1 to 6 in order without going back or aborting, and once started it ends
\* with a result in which every order is committed or unallocated with a reason
C6_Totality ==
    /\ [][stage' = stage \/ stage' = stage + 1]_vars
    /\ [](pc \in {"init", "input_error", "constructed", "stage", "parsing", "allocated",
                  "returned"})
    /\ (pc = "stage" /\ stage = 1)
          ~> (pc = "allocated" /\ stage = LastStage + 1 /\ EveryOrderSettled)

\* a run ended in which a stage failed after a commit and another stage allocated
C6_Witness ==
    /\ pc = "allocated"
    /\ Uncounted # {}
    /\ allocated_order_ids # {}
    /\ EveryOrderSettled

\* C7: a stage that fails contributes nothing: after it the drivers' committed lists,
\* the allocated ids and the accumulated allocations are as before the stage, and the
\* next stage is up
C7_FailedStageLeavesNoTrace ==
    [][(ProposerFails \/ ParseRaises) =>
          /\ driver_assignments' = stage_entry'
          /\ allocated_order_ids' = allocated_order_ids
          /\ allocations' = allocations
          /\ pc' = "stage"
          /\ stage' = stage + 1]_vars

\* C8: when the validator found hard-constraint errors in the final allocation, the
\* dict returned by allocate carries them, apart from the warnings
C8_ErrorsSurfaced ==
    (pc = "returned" /\ validation_errors # <<>>) =>
        /\ "errors" \in DOMAIN allocation_result
        /\ allocation_result["errors"] = validation_errors

SomeRequiredFieldMissing ==
    \/ \E id \in OrderIds, f \in RequiredOrderFields : f \notin orders[id].keys
    \/ \E id \in DriverIds, f \in RequiredDriverFields : f \notin drivers[id].keys

\* C9: with a required field missing on an order or a driver, validate_data raises in
\* the constructor: no preprocessing, no stage, no call of the proposer, no result
C9_InputErrorsFatal ==
    SomeRequiredFieldMissing =>
        /\ pc \in {"init", "input_error"}
        /\ stage = 0
        /\ preprocessed_data = Nothing
        /\ \A st \in 1..LastStage : llm_calls[st] = 0
        /\ \A d \in DriverIds : driver_assignments[d] = <<>>
        /\ ai_results = Nothing
        /\ allocation_result = Nothing

\* the constructor failed on a driver's missing field, all orders being complete
C9_Witness ==
    /\ pc = "input_error"
    /\ \A id \in OrderIds : orders[id].keys = RequiredOrderFields
    /\ \E id \in DriverIds : "max_orders_per_day" \notin drivers[id].keys

-----------------------------------------------------------------------------
(* Properties of validate_order_feasibility *)

Intersect(a, b) == a.pickup_time < b.teardown_time /\ b.pickup_time < a.teardown_time

Gap(a, b) ==
    IF a.teardown_time <= b.pickup_time THEN b.pickup_time - a.teardown_time
    ELSE a.pickup_time - b.teardown_time

Least(S) == CHOOSE i \in S : \A j \in S : i <= j

\* the verdict the rules give when read in the order capacity, capability, overlap,
\* buffer
FirstViolatedRule(order, driver, assigned) ==
    LET overlapping == {i \in 1..Len(assigned) : Intersect(order, assigned[i])}
        too_close == {i \in 1..Len(assigned) :
                         /\ ~Intersect(order, assigned[i])
                         /\ Gap(order, assigned[i]) < min_buffer_time_minutes}
    IN  IF Len(assigned) >= driver.max_orders_per_day
        THEN Verdict(FALSE, "Driver at capacity", NoValue)
        ELSE IF ~Compatible(order, driver)
        THEN Verdict(FALSE, "Missing required capabilities", NoValue)
        ELSE IF overlapping # {}
        THEN Verdict(FALSE, "Time conflict with order", assigned[Least(overlapping)].order_id)
        ELSE IF too_close # {}
        THEN Verdict(FALSE, "Insufficient buffer time with order",
                     assigned[Least(too_close)].order_id)
        ELSE Verdict(TRUE, "Feasible", NoValue)

\* C10: validate_order_feasibility returns the reason of the first rule violated in
\* the order capacity, capability, overlap with any assigned order, buffer with any
\* assigned order, and (true, feasible) when none is
C10_FirstViolatedRule ==
    pc = "called" =>
        call_ret = FirstViolatedRule(call_args.order, call_args.driver,
                                     call_args.assigned_orders)

\* the call reports the overlap with the second assigned order although the first
\* one, which does not overlap, is closer than the buffer
C10_Witness ==
    /\ pc = "called"
    /\ Len(call_args.assigned_orders) = 2
    /\ ~Intersect(call_args.order, call_args.assigned_orders[1])
    /\ Gap(call_args.order, call_args.assigned_orders[1]) < min_buffer_time_minutes
    /\ call_ret = Verdict(FALSE, "Time conflict with order", AssignedNames[2])

-----------------------------------------------------------------------------
(* Properties of the helpers *)

Called(fn) == pc = "called" /\ call_args.fn = fn

Touching(a, b) == a.teardown_time = b.pickup_time \/ b.teardown_time = a.pickup_time

\* C12: check_time_conflict(a, b) is true iff not (a.teardown <= b.pickup or
\* b.teardown <= a.pickup), the same for (b, a), and false when the windows only touch
C12_TimeConflict ==
    Called("check_time_conflict") =>
        LET a == call_args.order1
            b == call_args.order2
        IN  /\ call_ret.ab <=> ~(a.teardown_time <= b.pickup_time
                                    \/ b.teardown_time <= a.pickup_time)
            /\ call_ret.ab <=> call_ret.ba
            /\ Touching(a, b) => ~call_ret.ab

\* the windows of the two orders touch and no conflict is reported
C12_Witness ==
    /\ Called("check_time_conflict")
    /\ call_args.order1.teardown_time = call_args.order2.pickup_time
    /\ ~call_ret.ab
    /\ ~call_ret.ba

\* C13: has_sufficient_buffer(a, b) is true iff the orders do not overlap and the
\* earlier teardown is at least min_buffer_time_minutes before the later pickup; it
\* is false when they overlap, and the same for (a, b) and (b, a)
C13_SufficientBuffer ==
    Called("has_sufficient_buffer") =>
        LET a == call_args.order1
            b == call_args.order2
        IN  /\ call_ret.ab <=> (~Intersect(a, b) /\ Gap(a, b) >= min_buffer_time_minutes)
            /\ Intersect(a, b) => ~call_ret.ab
            /\ call_ret.ab <=> call_ret.ba

\* the first order starts exactly min_buffer_time_minutes after the second ends
C13_Witness ==
    /\ Called("has_sufficient_buffer")
    /\ call_args.order1.pickup_time - call_args.order2.teardown_time = min_buffer_time_minutes
    /\ call_ret.ab
    /\ call_ret.ba

\* the score of a tag set, highest match first
PriorityOf(tags) ==
    CASE {"vip", "wedding"} \subseteq tags -> 100
      [] "vip" \in tags /\ "wedding" \notin tags -> 90
      [] "wedding" \in tags /\ "vip" \notin tags -> 80
      [] {"corporate", "early_setup"} \subseteq tags /\ tags \cap {"vip", "wedding"} = {} -> 60
      [] "corporate" \in tags /\ tags \cap {"vip", "wedding", "early_setup"} = {} -> 50
      [] OTHER -> 30

\* C14: get_order_priority depends on the tag set only: 100 for vip and wedding, else
\* 90 for vip, else 80 for wedding, else 60 for corporate and early_setup, else 50 for
\* corporate, else 30
C14_Priority ==
    Called("get_order_priority") => call_ret.value = PriorityOf(call_args.order.tags)

\* early_setup without corporate scored 30
C14_Witness ==
    /\ Called("get_order_priority")
    /\ "early_setup" \in call_args.order.tags
    /\ "corporate" \notin call_args.order.tags
    /\ call_ret.value = 30

\* the category of a tag set by first match
CategoryOf(tags) ==
    CASE {"vip", "wedding"} \subseteq tags -> "vip_wedding"
      [] "vip" \in tags /\ "wedding" \notin tags -> "vip"
      [] "wedding" \in tags /\ "vip" \notin tags -> "wedding"
      [] "corporate" \in tags /\ tags \cap {"vip", "wedding"} = {} -> "corporate"
      [] OTHER -> "regular"

\* the number of times id is listed in the category c of the call's result
Listed(c, id) ==
    Cardinality({i \in 1..Len(call_ret.value[c]) : call_ret.value[c][i] = id})

\* C15: categorize_orders_by_priority puts every order in exactly one of vip_wedding,
\* vip, wedding, corporate, regular, the first that matches: the categories are
\* disjoint and cover the input
C15_Categories ==
    Called("categorize_orders_by_priority") =>
        /\ DOMAIN call_ret.value = {"vip_wedding", "vip", "wedding", "corporate", "regular"}
        /\ \A id \in OrderIds : \A c \in DOMAIN call_ret.value :
              Listed(c, id) = IF c = CategoryOf(call_args.orders[id].tags) THEN 1 ELSE 0
        /\ \A c \in DOMAIN call_ret.value : Range(call_ret.value[c]) \subseteq OrderIds

\* an order tagged vip, wedding and corporate is in vip_wedding, with another
\* category used as well
C15_Witness ==
    /\ Called("categorize_orders_by_priority")
    /\ \E id \in OrderIds :
          /\ {"vip", "wedding", "corporate"} \subseteq call_args.orders[id].tags
          /\ id \in Range(call_ret.value["vip_wedding"])
    /\ call_ret.value["corporate"] # <<>>

-----------------------------------------------------------------------------
(* Properties of AllocationValidator *)

Entries == call_args.allocations

OverCapacity(e) == Len(e.orders) > drivers[e.driver].max_orders_per_day

Incompatible(e) ==
    \E k \in 1..Len(e.orders) : ~Compatible(orders[e.orders[k]], drivers[e.driver])

Overlapping(e) ==
    \E i, j \in 1..Len(e.orders) :
        i # j /\ Intersect(orders[e.orders[i]], orders[e.orders[j]])

\* the order id is listed under the entries i and j
UnderBoth(id, i, j) == id \in Range(Entries[i].orders) /\ id \in Range(Entries[j].orders)

HardViolation ==
    \/ \E i \in 1..Len(Entries) :
          OverCapacity(Entries[i]) \/ Incompatible(Entries[i]) \/ Overlapping(Entries[i])
    \/ \E i, j \in 1..Len(Entries) : i # j /\ \E id \in OrderIds : UnderBoth(id, i, j)

\* C16: validate_allocation reports an error, and returns False, iff a driver has
\* more orders than its max_orders_per_day, or an order its capabilities do not allow,
\* or two overlapping orders, or an order id is under more than one driver; the
\* duplicate error names both drivers
C16_HardErrors ==
    Called("validate_allocation") =>
        /\ call_ret.errors # <<>> <=> HardViolation
        /\ call_ret.is_valid <=> ~HardViolation
        /\ \A i, j \in 1..Len(Entries) : \A id \in OrderIds :
              (i < j /\ UnderBoth(id, i, j)) =>
                  \E k \in 1..Len(call_ret.errors) :
                      /\ call_ret.errors[k].kind = "assigned to multiple drivers"
                      /\ call_ret.errors[k].order_id = id
                      /\ call_ret.errors[k].other = Entries[i].driver
                      /\ call_ret.errors[k].driver_id = Entries[j].driver

\* an allocation whose only violation is a driver over its capacity is invalid
C16_Witness ==
    /\ Called("validate_allocation")
    /\ \E i \in 1..Len(Entries) : OverCapacity(Entries[i])
    /\ \A i \in 1..Len(Entries) : ~Incompatible(Entries[i]) /\ ~Overlapping(Entries[i])
    /\ \A i, j \in 1..Len(Entries) : \A id \in OrderIds : i # j => ~UnderBoth(id, i, j)
    /\ ~call_ret.is_valid

\* the number of orders of the entry outside the driver's preferred region
Mismatched(e) ==
    Cardinality({k \in 1..Len(e.orders) :
                    orders[e.orders[k]].region # drivers[e.driver].preferred_region})

Warned(e) == \E k \in 1..Len(call_ret.warnings) : call_ret.warnings[k].subject = e.driver

\* C17: a driver gets a region warning iff strictly more than half of its orders are
\* outside its preferred region; a region mismatch gives no error and does not change
\* the verdict, and no hard-constraint violation is reported as a warning
C17_SoftWarnings ==
    Called("validate_allocation") =>
        /\ \A i \in 1..Len(Entries) :
              Warned(Entries[i]) <=> 2 * Mismatched(Entries[i]) > Len(Entries[i].orders)
        /\ \A k \in 1..Len(call_ret.warnings) :
              call_ret.warnings[k].kind = "orders outside preferred region"
        /\ \A k \in 1..Len(call_ret.errors) :
              call_ret.errors[k].kind \in {"exceeds capacity", "lacks required capabilities",
                                           "time conflict", "assigned to multiple drivers"}
        /\ Len(call_ret.warnings) <= Len(Entries)
        /\ call_ret.is_valid = (call_ret.errors = <<>>)

\* a valid allocation in which one driver has exactly half of its orders outside its
\* region and is not warned about, and another driver is
C17_Witness ==
    /\ Called("validate_allocation")
    /\ call_ret.is_valid
    /\ \E i \in 1..Len(Entries) :
          /\ Entries[i].orders # <<>>
          /\ 2 * Mismatched(Entries[i]) = Len(Entries[i].orders)
          /\ ~Warned(Entries[i])
    /\ call_ret.warnings # <<>>

\* C18: validate_allocation leaves the allocation and the inputs as they were and
\* starts from empty lists, so a second call on the same allocation gives the same
\* verdict, errors and warnings
C18_ValidationOnlyReports ==
    /\ [][(CallValidate \/ CallValidateAgain) =>
             /\ call_args' = call_args
             /\ UNCHANGED <<orders, drivers, ai_results, allocation_result,
                            driver_assignments, allocations>>]_vars
    /\ [](pc = "called_again" /\ call_args.fn = "validate_allocation"
             => call_ret.first = call_ret.second)

\* an allocation with errors and warnings was validated twice
C18_Witness ==
    /\ pc = "called_again"
    /\ call_args.fn = "validate_allocation"
    /\ call_ret.second.errors # <<>>
    /\ call_ret.second.warnings # <<>>
    /\ validation_errors = call_ret.first.errors

-----------------------------------------------------------------------------
(* Properties of the tail of allocate_orders *)

Headroom(d) == Len(driver_assignments[d]) < drivers[d].max_orders_per_day

\* the reason derived from the capability rule and the committed counts
ReasonFor(order) ==
    LET matching == {d \in DriverIds : Compatible(order, drivers[d])}
        special == "wedding" \in order.tags \/ "vip" \in order.tags
    IN  IF special /\ matching = {}
        THEN "No drivers with wedding/VIP capabilities available"
        ELSE IF special /\ \A d \in matching : ~Headroom(d)
        THEN "All wedding-capable drivers at full capacity"
        ELSE IF \A d \in DriverIds : ~Headroom(d)
        THEN "All drivers at full capacity"
        ELSE "Time conflicts or regional constraints prevented allocation"

\* C19: each unallocated order's reason is derived from the committed counts after
\* all stages: for a wedding or vip order, no capability-matching drivers when no
\* driver satisfies the order's capability requirements, else all of them at capacity
\* when none has headroom; otherwise all drivers at full capacity when that is so,
\* else the generic reason
C19_UnallocationReason ==
    HasResult =>
        \A id \in OrderIds :
            IsUnallocated(id) => unallocation_reason[id] = ReasonFor(orders[id])

\* the Assignments of the result that belong to the driver
EntriesOf(d) ==
    {i \in 1..Len(ai_results.allocations) : ai_results.allocations[i].driver = d}

\* C20: the result has exactly one Assignment for each driver that committed an order
\* and none for the others, and its order list is the driver's running committed list
\* at the end of the run
C20_Merge ==
    HasResult =>
        \A d \in DriverIds :
            /\ Cardinality(EntriesOf(d)) = IF driver_assignments[d] # <<>> THEN 1 ELSE 0
            /\ \A i \in EntriesOf(d) : ai_results.allocations[i].orders = driver_assignments[d]

-----------------------------------------------------------------------------
(* Properties of the figures of the result *)

Max(a, b) == IF a >= b THEN a ELSE b

\* C21: every Assignment's utilization is |orders| / max(max_orders_per_day, 1) * 100,
\* is computed without a division by zero, and is greater than 0 and at most 100
C21_Utilization ==
    HasResult =>
        \A i \in 1..Len(ai_results.allocations) :
            LET a == ai_results.allocations[i]
                u == a.utilization
            IN  /\ u.den > 0
                /\ u.num * Max(drivers[a.driver].max_orders_per_day, 1)
                      = Len(a.orders) * 100 * u.den
                /\ u.num > 0
                /\ u.num <= 100 * u.den

\* a result with a driver used to the full and a driver used in part
C21_Witness ==
    /\ HasResult
    /\ \E i, j \in 1..Len(ai_results.allocations) :
          /\ ai_results.allocations[i].utilization.num
                = 100 * ai_results.allocations[i].utilization.den
          /\ ai_results.allocations[j].utilization.num
                < 100 * ai_results.allocations[j].utilization.den

\* the input orders that sit in some driver's committed list
Committed == {id \in OrderIds : \E d \in DriverIds : id \in Range(driver_assignments[d])}

\* C22: metrics.allocation_rate is allocated / total_orders * 100, allocated being the
\* number of input orders that were committed
C22_AllocationRate ==
    pc = "returned" =>
        LET rate == allocation_result.metrics.allocation_rate
        IN  /\ rate.den > 0
            /\ rate.num * Len(OrderList) = Cardinality(Committed) * 100 * rate.den

\* C23: metrics.average_utilization is the mean of the Assignments' utilization, and
\* is 0 when the result has no Assignment
C23_AverageUtilization ==
    pc = "returned" =>
        LET metrics == allocation_result.metrics
            n == Len(allocation_result.allocations)
        IN  /\ "average_utilization" \in DOMAIN metrics
            /\ IF n = 0
               THEN metrics.average_utilization.num = 0
               ELSE LET sum == SumUtilization(allocation_result.allocations, n)
                    IN  metrics.average_utilization.num * sum.den * n
                           = sum.num * metrics.average_utilization.den

\* the input orders listed in some Assignment of the returned result
AllocatedOrders ==
    {id \in OrderIds : \E i \in 1..Len(allocation_result.allocations) :
                          id \in Range(allocation_result.allocations[i].orders)}

\* C24: metrics.regional_distribution maps each region to the number of allocated
\* orders of that region, its counts sum to metrics.total_allocated, and
\* total_allocated + total_unallocated is the number of input orders
C24_RegionalDistribution ==
    pc = "returned" =>
        LET metrics == allocation_result.metrics
            dist == metrics.regional_distribution
        IN  /\ \A r \in Regions :
                  (IF r \in DOMAIN dist THEN dist[r] ELSE 0)
                     = Cardinality({id \in AllocatedOrders : orders[id].region = r})
            /\ DOMAIN dist \subseteq Regions
            /\ SumOver([r \in DOMAIN dist |-> dist[r]], DOMAIN dist) = metrics.total_allocated
            /\ metrics.total_allocated + metrics.total_unallocated = Len(OrderList)

-----------------------------------------------------------------------------
(* Properties of the stages *)

\* the driver is in the pool of the stage that handles the order's category
PoolAllows(order, driver) ==
    CASE order_category(order) \in {"vip_wedding", "vip", "wedding"} ->
            driver_category(driver) = "wedding_capable"
      [] order_category(order) = "corporate" ->
            driver_category(driver) \in {"corporate_capable", "general"}
      [] OTHER -> TRUE

\* the drivers whose committed list changes in the step
Receiving == {d \in DriverIds : driver_assignments'[d] # driver_assignments[d]}

\* C25: an order is committed only to a driver of its stage's pool that had capacity
\* left when the stage started: vip_wedding, vip and wedding orders to wedding_capable
\* drivers, corporate orders to corporate_capable or general drivers, regular orders
\* to any driver; a proposal naming a driver outside the filtered pool commits nothing
C25_StagePools ==
    /\ [](\A d \in DriverIds : \A i \in 1..Len(driver_assignments[d]) :
              PoolAllows(orders[driver_assignments[d][i]], drivers[d]))
    /\ [][\A d \in Receiving :
              /\ pc = "parsing"
              /\ d \in Range(driver_map)
              /\ Len(stage_entry[d]) < drivers[d].max_orders_per_day]_vars

\* a corporate order is committed while a wedding_capable driver that has the
\* corporate capability still has capacity
C25_Witness ==
    /\ \E d \in DriverIds : \E i \in 1..Len(driver_assignments[d]) :
          order_category(orders[driver_assignments[d][i]]) = "corporate"
    /\ \E d \in DriverIds :
          /\ driver_category(drivers[d]) = "wedding_capable"
          /\ "corporate" \in drivers[d].capabilities
          /\ Len(driver_assignments[d]) < drivers[d].max_orders_per_day

\* a stage with orders is up and no driver of its pool has capacity left
EmptyPool ==
    /\ InStage
    /\ StageOrders(stage, categorized_orders) # <<>>
    /\ \A d \in Range(StagePool(stage, categorized_drivers)) : ~Headroom(d)

\* C26: a stage that starts with no driver of its pool below its max_orders_per_day
\* yields no allocation, changes no committed list, raises nothing and is followed by
\* the next stage; its orders end up unallocated with non-empty reasons
C26_EmptyPool ==
    /\ [][EmptyPool =>
             /\ UNCHANGED <<driver_assignments, allocations, allocated_order_ids, llm_calls>>
             /\ pc' = "stage"
             /\ stage' = stage + 1]_vars
    /\ [](HasResult =>
             \A s \in 1..LastStage :
                 llm_calls[s] = 0 =>
                     \A id \in Range(StageOrders(s, categorized_orders)) :
                         IsUnallocated(id) /\ unallocation_reason[id] # "")

\* a stage found its pool filled by an earlier stage and the run ended
C26_Witness ==
    /\ HasResult
    /\ allocated_order_ids # {}
    /\ \E s \in 1..LastStage :
          /\ StageOrders(s, categorized_orders) # <<>>
          /\ llm_calls[s] = 0
          /\ \E d \in Range(StagePool(s, categorized_drivers)) :
                drivers[d].max_orders_per_day > 0

RECURSIVE TotalCalls(_)
TotalCalls(s) == IF s = 0 THEN 0 ELSE llm_calls[s] + TotalCalls(s - 1)

\* the stages whose call count changes in a step
Invoked == {s \in 1..LastStage : llm_calls'[s] # llm_calls[s]}

\* C27: the proposer is invoked at most once per stage and at most six times per run,
\* never again after a failure, and never for a stage without orders or without a driver
\* of its pool below its max_orders_per_day
C27_ProposerCalls ==
    /\ [](/\ \A s \in 1..LastStage : llm_calls[s] <= 1
          /\ TotalCalls(LastStage) <= LastStage
          /\ \A s \in 1..LastStage :
                (s > stage \/ (s = stage /\ pc = "stage")) => llm_calls[s] = 0)
    /\ [][/\ stage' >= stage
           /\ \A s \in Invoked :
                 /\ s = stage
                 /\ pc = "stage"
                 /\ llm_calls'[s] = llm_calls[s] + 1
                 /\ StageOrders(s, categorized_orders) # <<>>
                 /\ \E d \in Range(StagePool(s, categorized_drivers)) : Headroom(d)
                 /\ \/ pc' = "parsing" /\ stage' = stage
                    \/ pc' = "stage" /\ stage' = stage + 1]_vars

\* a run ended in which one stage's call failed or was answered, another stage had
\* orders and was not called
C27_Witness ==
    /\ HasResult
    /\ \E s, t \in 1..LastStage :
          /\ llm_calls[s] = 1
          /\ llm_calls[t] = 0
          /\ StageOrders(t, categorized_orders) # <<>>

\* the category each stage handles, in the order of the stages
StageCategory == <<"vip_wedding", "vip_corporate", "vip", "wedding", "corporate", "regular">>

\* the positions of the orders a step adds to a driver's list
NewOn(d) == (Len(driver_assignments[d]) + 1)..Len(driver_assignments'[d])

\* C28: the stages run one after another in the order vip_wedding, vip_corporate, vip,
\* wedding, corporate, regular; the drivers offered to the proposer are those of the pool
\* below their max_orders_per_day counting the commits of every earlier stage, a driver
\* at its max_orders_per_day receives nothing, and an order committed is clear of, and
\* min_buffer_time_minutes apart from, every order committed to the driver before
C28_SequentialStages ==
    /\ [](pc = "parsing" =>
             \A d \in Range(driver_map) :
                 Len(stage_entry[d]) < drivers[d].max_orders_per_day)
    /\ [][/\ stage' \in {stage, stage + 1}
           /\ (pc = "stage" /\ pc' = "parsing") =>
                 Range(driver_map') =
                    {d \in Range(StagePool(stage, categorized_drivers)) : Headroom(d)}
           /\ \A d \in Receiving :
                 /\ Headroom(d)
                 /\ SubSeq(driver_assignments'[d], 1, Len(driver_assignments[d]))
                       = driver_assignments[d]
                 /\ \A i \in NewOn(d) :
                       /\ CategoryOf(orders[driver_assignments'[d][i]].tags)
                             = StageCategory[stage]
                       /\ \A j \in 1..(i - 1) :
                             Apart(orders[driver_assignments'[d][i]],
                                   orders[driver_assignments'[d][j]])]_vars

\* in a later stage a driver of the pool filled by an earlier stage is not offered, and
\* an offered driver holds an order of an earlier stage next to one of this stage
C28_Witness ==
    /\ pc = "parsing"
    /\ stage > 1
    /\ \E d \in Range(StagePool(stage, categorized_drivers)) :
          /\ d \notin Range(driver_map)
          /\ drivers[d].max_orders_per_day > 0
    /\ \E d \in Range(driver_map) :
          /\ stage_entry[d] # <<>>
          /\ Len(driver_assignments[d]) > Len(stage_entry[d])

\* the ids of the orders of the stage, and those of a proposal among them
StageIds == Range(StageOrders(stage, categorized_orders))
KnownIds(order_ids) == FilterSeq(order_ids, 1, StageIds)

\* C29: an entry whose driver_id is missing or names no offered driver, and an order id
\* that names no order of the stage, commit nothing and fail nothing; the other ids of
\* the entry and the other entries of the response are processed as if the unknown ones
\* were absent (an unknown id before or after a known one at every point of the loop,
\* every list of ids when the response is first read)
C29_UnknownIdsDropped ==
    /\ [](pc = "parsing" =>
             \A d \in Range(driver_map) :
                 /\ \A x \in ProposedOrderIds \ StageIds :
                       /\ Validated(d, <<x>>) = Validated(d, <<>>)
                       /\ \A y \in StageIds :
                             /\ Validated(d, <<x, y>>) = Validated(d, <<y>>)
                             /\ Validated(d, <<y, x>>) = Validated(d, <<y>>)
                 /\ parsed = 0 =>
                       \A order_ids \in OrderIdLists(MaxIds) :
                           Validated(d, order_ids) = Validated(d, KnownIds(order_ids)))
    /\ [][/\ (pc = "parsing" /\ parsed' = parsed + 1) =>
                 /\ pc' = "parsing"
                 /\ stage' = stage
                 /\ allocations' = allocations
                 /\ driver_map' = driver_map
           /\ \A d \in Receiving :
                 /\ d \in Range(driver_map)
                 /\ \A i \in NewOn(d) :
                       driver_assignments'[d][i] \in Range(StageOrders(stage, categorized_orders))]_vars

\* entries have been processed, one was committed, and a further entry whose first id
\* names no order of the stage would still commit its second
C29_Witness ==
    /\ pc = "parsing"
    /\ parsed > 0
    /\ stage_allocations # <<>>
    /\ \E d \in Range(driver_map) : \E order_ids \in OrderIdLists(MaxIds) :
          /\ Len(order_ids) = 2
          /\ order_ids[1] \notin Range(StageOrders(stage, categorized_orders))
          /\ Validated(d, order_ids).assigned = <<order_ids[2]>>

\* the stage that handles the category of an order
StageOf(id) == CHOOSE s \in 1..LastStage : StageCategory[s] = CategoryOf(orders[id].tags)

\* the stages whose list of orders holds an order
StagesListing(id) == {s \in 1..LastStage : id \in Range(StageOrders(s, categorized_orders))}

\* C30: an order is in the list of one stage only, the one of its category; it is
\* committed only while that stage parses its response, an order of another stage named
\* at any point of the loop, and any list of such orders when the response is first
\* read, commits nothing, and an order not committed when its stage is over stays
\* uncommitted
C30_OneStagePerOrder ==
    /\ [](pc \in {"stage", "parsing"} =>
             \A id \in OrderIds : StagesListing(id) = {StageOf(id)})
    /\ [](pc = "parsing" =>
             \A d \in Range(driver_map) :
                 /\ \A id \in OrderIds :
                       StageOf(id) # stage =>
                           /\ Validated(d, <<id>>).cur = driver_assignments[d]
                           /\ Validated(d, <<id>>).assigned = <<>>
                 /\ parsed = 0 =>
                       \A order_ids \in
                              UNION {[1..k -> {id \in OrderIds : StageOf(id) # stage}] :
                                        k \in 0..MaxIds} :
                           /\ Validated(d, order_ids).cur = driver_assignments[d]
                           /\ Validated(d, order_ids).assigned = <<>>)
    /\ [][/\ \A d \in Receiving : \A i \in NewOn(d) :
                 /\ pc = "parsing"
                 /\ StageOf(driver_assignments'[d][i]) = stage
           /\ \A id \in OrderIds \ Committed :
                 (pc \in {"stage", "parsing"} /\ StageOf(id) < stage) =>
                     \A dr \in DriverIds : id \notin Range(driver_assignments'[dr])]_vars

\* a later stage parses its response while an order of an earlier stage is uncommitted
\* and an offered driver could take it
C30_Witness ==
    /\ pc = "parsing"
    /\ \E id \in OrderIds \ Committed :
          /\ StageOf(id) < stage
          /\ \E d \in Range(driver_map) :
                validate_order_feasibility(orders[id], drivers[d],
                                           OrderDicts(driver_assignments[d], orders)).is_feasible

-----------------------------------------------------------------------------
(* Properties of the loop over a response *)

\* the feasibility verdict for an order against a list of committed orders
Feasible(id, d, list) ==
    validate_order_feasibility(orders[id], drivers[d], OrderDicts(list, orders)).is_feasible

\* two orders that cannot both join a driver's list
Conflicting(a, b, d, list) ==
    \/ ~Apart(orders[a], orders[b])
    \/ Len(list) + 1 = drivers[d].max_orders_per_day

\* C31: the entries of a response and the ids of an entry are checked and committed in
\* the order listed, each check seeing the commits made before it in the same response;
\* of two orders proposed to one driver that are each feasible alone and conflict with
\* each other, the first listed is committed and the second rejected
C31_ListedOrder ==
    /\ [](pc = "parsing" =>
             \A d \in Range(driver_map) : \A a, b \in StageIds :
                 LET cur == driver_assignments[d]
                     first == Validated(d, <<a>>)
                     both == Validated(d, <<a, b>>)
                 IN  /\ both = ValidateEach(<<b>>, 1, drivers[d], StageIds, orders,
                                            first.cur, first.assigned, first.ids)
                     /\ (/\ a # b
                         /\ Feasible(a, d, cur)
                         /\ Feasible(b, d, cur)
                         /\ Conflicting(a, b, d, cur))
                        => both.cur = Append(cur, a) /\ both.assigned = <<a>>)
    /\ [][\A d \in Receiving : \A i \in NewOn(d) :
             Feasible(driver_assignments'[d][i], d,
                      SubSeq(driver_assignments'[d], 1, i - 1))]_vars

\* an order was committed to a driver in this response, and an order of the stage that
\* was feasible for the driver before that commit is no longer
C31_Witness ==
    /\ pc = "parsing"
    /\ parsed > 0
    /\ \E d \in Range(driver_map) :
          /\ Len(driver_assignments[d]) > Len(stage_entry[d])
          /\ \E b \in StageIds \ Committed :
                /\ Feasible(b, d, SubSeq(driver_assignments[d], 1,
                                         Len(driver_assignments[d]) - 1))
                /\ ~Feasible(b, d, driver_assignments[d])

\* C32: a driver's committed list only grows at its end, each order added having passed
\* the feasibility check against the list before it; no later entry, stage, stage
\* failure, merge, reason derivation or validation removes, replaces or reorders a
\* committed order
C32_AppendOnly ==
    [][\A d \in DriverIds :
          /\ Len(driver_assignments'[d]) >= Len(driver_assignments[d])
          /\ \A i \in 1..Len(driver_assignments[d]) :
                driver_assignments'[d][i] = driver_assignments[d][i]
          /\ \A i \in NewOn(d) :
                /\ pc = "parsing"
                /\ validate_order_feasibility(
                       orders[driver_assignments'[d][i]], drivers[d],
                       OrderDicts(SubSeq(driver_assignments'[d], 1, i - 1), orders)).rule
                      = "Feasible"]_vars

\* the run ended with a driver holding two orders and an order left committed by a
\* stage that failed
C32_Witness ==
    /\ pc = "returned"
    /\ \E d \in DriverIds : Len(driver_assignments[d]) >= 2
    /\ Committed \ allocated_order_ids # {}

-----------------------------------------------------------------------------
(* Properties of preprocessing and of the merge *)

\* the priority score of an order of the call
ScoreOf(id) == PriorityOf(call_args.orders[id].tags)

\* C33: in the categorized_orders of preprocess every category holds the orders of that
\* category once each, in descending priority score, orders of equal score in their
\* input order; in corporate the corporate and early_setup orders come first
C33_SortedCategories ==
    Called("preprocess") =>
        \A c \in DOMAIN call_ret.value :
            LET l == call_ret.value[c]
            IN  /\ Range(l) = {id \in OrderIds : CategoryOf(call_args.orders[id].tags) = c}
                /\ \A i, j \in 1..Len(l) :
                      i < j =>
                          /\ ScoreOf(l[i]) >= ScoreOf(l[j])
                          /\ ScoreOf(l[i]) = ScoreOf(l[j]) =>
                                IndexOf(OrderList, l[i]) < IndexOf(OrderList, l[j])
                          /\ (c = "corporate" /\ "early_setup" \in call_args.orders[l[j]].tags)
                                => "early_setup" \in call_args.orders[l[i]].tags

\* a corporate order is followed in the input by two corporate and early_setup orders
C33_Witness ==
    /\ Called("preprocess")
    /\ call_args.orders["O1"].tags = {"corporate"}
    /\ call_args.orders["O2"].tags = {"corporate", "early_setup"}
    /\ call_args.orders["O3"].tags = {"corporate", "early_setup"}
    /\ call_ret.value["corporate"] = <<"O2", "O3", "O1">>

RECURSIVE PartialReasonings(_, _)
\* the reasoning strings of the entries of allocations[i..] for a driver, in order
PartialReasonings(i, d) ==
    IF i > Len(allocations) THEN <<>>
    ELSE (IF allocations[i].driver = d THEN <<allocations[i].reasoning>> ELSE <<>>)
         \o PartialReasonings(i + 1, d)

RECURSIVE Concatenated(_)
Concatenated(strings) ==
    IF strings = <<>> THEN "" ELSE Head(strings) \o Concatenated(Tail(strings))

RECURSIVE LastNonEmpty(_)
LastNonEmpty(strings) ==
    IF strings = <<>> THEN ""
    ELSE IF strings[Len(strings)] # "" THEN strings[Len(strings)]
    ELSE LastNonEmpty(SubSeq(strings, 1, Len(strings) - 1))

\* C34: the reasoning of a merged Assignment is the concatenation of the reasoning
\* strings of the driver's partial allocations, or the last non-empty one among them
C34_MergedReasoning ==
    HasResult =>
        \A i \in 1..Len(ai_results.allocations) :
            LET a == ai_results.allocations[i]
                parts == PartialReasonings(1, a.driver)
            IN  a.reasoning = Concatenated(parts) \/ a.reasoning = LastNonEmpty(parts)

\* the stage in which a driver received its first order
FirstStage(d) == StageOf(driver_assignments[d][1])

\* the place of a driver's first partial allocation among those of the run
FirstListed(d) == CHOOSE i \in 1..Len(allocations) :
                      /\ allocations[i].driver = d
                      /\ \A j \in 1..(i - 1) : allocations[j].driver # d

\* driver a received its first order before driver b received its first
ReceivedBefore(a, b) ==
    \/ FirstStage(a) < FirstStage(b)
    \/ FirstStage(a) = FirstStage(b) /\ FirstListed(a) < FirstListed(b)

\* C35: the final Assignments are in descending utilization, and Assignments of equal
\* utilization are in the order in which their drivers first received an order
C35_SortedAssignments ==
    HasResult =>
        \A i, j \in 1..Len(ai_results.allocations) :
            i < j =>
                LET a == ai_results.allocations[i]
                    b == ai_results.allocations[j]
                IN  /\ ~RatLess(a.utilization, b.utilization)
                    /\ ~RatLess(b.utilization, a.utilization) => ReceivedBefore(a.driver, b.driver)

-----------------------------------------------------------------------------
(* Agreement of the rules *)

\* b starts at least min_buffer_time_minutes after a ends, or a after b
FarEnough(a, b) ==
    \/ b.pickup_time - a.teardown_time >= min_buffer_time_minutes
    \/ a.pickup_time - b.teardown_time >= min_buffer_time_minutes

\* C36: for orders picked up no later than they are torn down, the verdict of
\* validate_order_feasibility is: fewer assigned orders than max_orders_per_day, the
\* driver holds the capabilities the order's tags ask for, and the order is
\* min_buffer_time_minutes away from every assigned order; the overlap check decides
\* the reason only
C36_VerdictWithoutOverlap ==
    (/\ pc = "called"
     /\ call_args.order.pickup_time <= call_args.order.teardown_time
     /\ \A i \in 1..Len(call_args.assigned_orders) :
           call_args.assigned_orders[i].pickup_time
              <= call_args.assigned_orders[i].teardown_time) =>
        (call_ret.is_feasible <=>
            /\ Len(call_args.assigned_orders) < call_args.driver.max_orders_per_day
            /\ Compatible(call_args.order, call_args.driver)
            /\ \A i \in 1..Len(call_args.assigned_orders) :
                  FarEnough(call_args.order, call_args.assigned_orders[i]))

\* an order is refused with the overlap as the reason while it is also too close to
\* an assigned order that it does not overlap
C36_Witness ==
    /\ pc = "called"
    /\ Len(call_args.assigned_orders) = 2
    /\ ~call_ret.is_feasible
    /\ call_ret.rule = "Time conflict with order"
    /\ \E i \in 1..2 :
          /\ ~Intersect(call_args.order, call_args.assigned_orders[i])
          /\ ~FarEnough(call_args.order, call_args.assigned_orders[i])

\* the errors of the rules that are checked for each driver alone
PerDriverKinds == {"exceeds capacity", "lacks required capabilities", "time conflict"}

\* C37: whatever the responses of the llm, validate_allocation reports for the result
\* of allocate_orders no capacity error, no capability error and no time conflict
C37_ValidatorAgrees ==
    pc = "returned" =>
        \A i \in 1..Len(validation_errors) : validation_errors[i].kind \notin PerDriverKinds

\* the validated result holds a driver filled to its capacity with two orders, one of
\* them with a gated tag, and an order assigned twice is the only error reported
C37_Witness ==
    /\ pc = "returned"
    /\ validation_errors # <<>>
    /\ \E i \in 1..Len(allocation_result.allocations) :
          LET a == allocation_result.allocations[i]
          IN  /\ Len(a.orders) = 2
              /\ drivers[a.driver].max_orders_per_day = 2
              /\ \E k \in 1..2 : orders[a.orders[k]].tags \cap GatedTags # {}

-----------------------------------------------------------------------------
(* Properties of the pools *)

\* the orders tagged vip and corporate and not wedding
VipCorporateOrders ==
    {id \in OrderIds : {"vip", "corporate"} \subseteq orders[id].tags
                          /\ "wedding" \notin orders[id].tags}

CorporateOrders ==
    {id \in OrderIds : "corporate" \in orders[id].tags
                          /\ orders[id].tags \cap {"vip", "wedding"} = {}}

TooClose(e) ==
    {p \in (1..Len(e.orders)) \X (1..Len(e.orders)) :
        /\ p[1] # p[2]
        /\ ~Intersect(orders[e.orders[p[1]]], orders[e.orders[p[2]]])
        /\ ~FarEnough(orders[e.orders[p[1]]], orders[e.orders[p[2]]])}

\* C40: an allocation in which two orders of a driver do not overlap and are closer
\* than min_buffer_time_minutes, and nothing else is violated, is valid for
\* validate_allocation, which reports no error, while validate_order_feasibility
\* refuses either order next to the other
C40_ValidatorIgnoresBuffer ==
    Called("validate_allocation") =>
        \A i \in 1..Len(Entries) : \A p \in TooClose(Entries[i]) :
            ~HardViolation =>
                /\ call_ret.is_valid
                /\ call_ret.errors = <<>>
                /\ validate_order_feasibility(
                       orders[Entries[i].orders[p[1]]], drivers[Entries[i].driver],
                       <<orders[Entries[i].orders[p[2]]]>>)
                     = Verdict(FALSE, "Insufficient buffer time with order",
                               Entries[i].orders[p[2]])

\* a driver with room for two orders is given two orders ten minutes apart, and the
\* allocation is valid
C40_Witness ==
    /\ Called("validate_allocation")
    /\ \E i \in 1..Len(Entries) :
          /\ Entries[i].orders = <<"O2", "O3">>
          /\ drivers[Entries[i].driver].max_orders_per_day = 2
          /\ TooClose(Entries[i]) # {}
    /\ call_ret.is_valid
    /\ call_ret.errors = <<>>

====
